---------------------------- MODULE Spec2Model ----------------------------
(***************************************************************************)
(* A model of lib/tpm.c (GnuTLS TPM key support).                          *)
(*                                                                         *)
(*  - Spec    : the chip-side state machine.  An application thread calls  *)
(*              the entry points (private/public key import, sign, key     *)
(*              destruction, key generation); every TSS call is one step   *)
(*              whose native result is chosen by the chip.                 *)
(*  - SpecUrl : the tpmkey: locator codec (randomize_uuid,                 *)
(*              encode_tpmkey_url, decode_tpmkey_url) applied to bounded   *)
(*              inputs.                                                    *)
(*  - SpecSession : tpm_open_session followed by tpm_close_session.        *)
(*  - SpecKeySize : the key flags gnutls_tpm_privkey_generate computes     *)
(*              from the requested bit size.                               *)
(***************************************************************************)
EXTENDS Integers, Sequences, FiniteSets, TLC

VARIABLES
  pc,        \* position of the application thread inside tpm.c
  op,        \* entry point being executed (or executed last)
  cur,       \* which struct tpm_ctx_st the running function uses: "heap" / "stack"
  st,        \* the two struct tpm_ctx_st instances (fields are handles)
  heap,      \* allocation state of the gnutls_malloc'ed struct tpm_ctx_st
  chip,      \* TSS daemon: live handles, policy secrets, assignments, store
  openLog,   \* handles obtained from the chip by the current entry point
  closeLog,  \* close calls issued by the current entry point, in order
  pkey,      \* the abstract gnutls_privkey_t object of the application
  args,      \* arguments of the current entry point
  ret,       \* value returned by the last entry point ("pending" while running)
  fail,      \* first failing step of the current entry point and its native code
  ub,        \* undefined-behaviour events that have occurred
  nOps,      \* number of entry points called so far
  hash,      \* tpm_sign_fn's local TSS_HHASH
  loc,       \* gnutls_tpm_privkey_generate's locals: key_ctx, key_policy, key_uuid, pub
  sret,      \* value returned by the last tpm_sign_fn call
  ptr,       \* host pointers: asn1.data, tmpkey.data, privkey->data, pubkey->data
  hostHeap,  \* allocation state of the host buffers
  env,       \* the chip's secrets: the SRK's and the imported key's authorisation
  uHost,     \* codec: byte order of the host ("unknown" until the codec runs)
  uPc,       \* codec harness position
  uIn,       \* codec input: the UUID handed to encode_tpmkey_url
  uStr,      \* codec: the locator string
  uOut,      \* codec: struct tpmkey_url_st after decode_tpmkey_url
  uRet,      \* codec: value returned by decode_tpmkey_url
  kPc,       \* key size harness position
  bits,      \* gnutls_tpm_privkey_generate's argument bits
  flags,     \* gnutls_tpm_privkey_generate's argument flags
  tpm_flags, \* gnutls_tpm_privkey_generate's local tpm_flags
  tPc,       \* concurrent callers: each thread's position
  tS,        \* concurrent callers: each thread's local s (a heap block)
  tKey,      \* concurrent callers: each thread's pkey and the s it holds
  mem,       \* concurrent callers: the heap blocks struct tpm_ctx_st live in
  dChip,     \* concurrent callers: the objects of the TSS daemon
  touch      \* history: the handles each thread closed or used

chipVars == <<pc, op, cur, st, heap, chip, openLog, closeLog, pkey,
              args, ret, fail, ub, nOps, hash, loc, sret, ptr, hostHeap>>
urlVars  == <<uHost, uPc, uIn, uStr, uOut, uRet>>
sizeVars == <<kPc, bits, flags, tpm_flags>>
concVars == <<tPc, tS, tKey, mem, dChip, touch>>
vars     == <<chipVars, urlVars, sizeVars, concVars, env>>

(***************************************************************************)
(* Bounds.                                                                 *)
(***************************************************************************)
MaxOps == 1

(***************************************************************************)
(* Values.                                                                 *)
(***************************************************************************)
\* A handle is <<context number, kind>>; the null handle is 0 in the code.
Null == <<0, "null">>
\* An indeterminate non-zero handle value (uninitialised memory).
Junk == <<0, "junk">>
Handle(n, kind) == <<n, kind>>

\* A NULL char* argument.
NULLP == "NULL"

E_SUCCESS == "GNUTLS_E_SUCCESS"
OK == "TSS_SUCCESS"
\* Native result codes, as Trspi_Error_Code sees them.
CommFail == {"TSS_E_COMM_FAILURE", "TSS_E_NO_CONNECTION",
             "TSS_E_CONNECTION_FAILED", "TSS_E_CONNECTION_BROKEN"}
\* The failures the chip produces in the model: a communication failure, an
\* authorisation failure, and one of the codes tss_err has no case for.  The
\* connection step produces every communication failure.
OtherFail == {"TSS_E_COMM_FAILURE", "TSS_E_FAIL"}
NativeFail == OtherFail \cup {"TPM_E_AUTHFAIL"}
ConnectFail == CommFail \cup {"TSS_E_FAIL", "TPM_E_AUTHFAIL"}

SHA1(p) == "sha1(" \o p \o ")"
\* static const unsigned char nullpass[20]
nullpass == "zero20"

Upd(f, k, v) == [x \in DOMAIN f \cup {k} |-> IF x = k THEN v ELSE f[x]]
Drop(f, K) == [x \in DOMAIN f \ K |-> f[x]]

(***************************************************************************)
(* The Error Mapper.                                                       *)
(***************************************************************************)
\* tss_err without the case TPM_E_AUTHFAIL.
tss_err_without_authfail(err) ==
  CASE err \in CommFail -> "GNUTLS_E_TPM_SESSION_ERROR"
    [] OTHER -> "GNUTLS_E_TPM_ERROR"

\* tss_err (err)
tss_err(err) ==
  CASE err \in CommFail -> "GNUTLS_E_TPM_SESSION_ERROR"
    [] err = "TPM_E_AUTHFAIL" -> "GNUTLS_E_TPM_SRK_PASSWORD_ERROR"
    [] OTHER -> "GNUTLS_E_TPM_ERROR"

(***************************************************************************)
(* The TSS library, as tpm.c uses it.                                      *)
(***************************************************************************)
IsLiveCtx(c, hctx) == hctx \in c.live /\ hctx[2] = "ctx"

\* A new object of context hctx.
NewObject(c, h) == [c EXCEPT !.live = @ \cup {h}]

\* Tspi_Context_CloseObject(hctx, h): closes h when it is a live object of the
\* live context hctx, and is an error without effect otherwise.
Tspi_Context_CloseObject(c, hctx, h) ==
  IF IsLiveCtx(c, hctx) /\ h \in c.live /\ h[1] = hctx[1] /\ h[2] # "ctx"
  THEN [c EXCEPT !.live = @ \ {h},
                 !.secret = Drop(@, {h}),
                 !.keypol = [k \in {x \in DOMAIN @ : x # h /\ @[x] # h} |-> @[k]]]
  ELSE c

\* Tspi_Context_Close(hctx): destroys the context and releases all the
\* resources assigned to it.
Tspi_Context_Close(c, hctx) ==
  IF IsLiveCtx(c, hctx)
  THEN LET gone == {h \in c.live : h[1] = hctx[1]}
       IN [c EXCEPT !.live = @ \ gone,
                    !.secret = Drop(@, gone),
                    !.keypol = [k \in {x \in DOMAIN @ : x \notin gone /\ @[x] \notin gone}
                                   |-> @[k]]]
  ELSE c

\* Tspi_Policy_SetSecret(hpol, mode, secret)
Tspi_Policy_SetSecret(c, hpol, mode, data) ==
  [c EXCEPT !.secret = Upd(@, hpol, [mode |-> mode, data |-> data])]

\* Tspi_Policy_AssignToObject(hpol, hkey)
Tspi_Policy_AssignToObject(c, hpol, hkey) ==
  [c EXCEPT !.keypol = Upd(@, hkey, hpol)]

\* The authorisation data the chip derives from a policy's secret.
AuthData(sec) == IF sec.mode = "TSS_SECRET_MODE_PLAIN" THEN SHA1(sec.data) ELSE sec.data

\* Whether the usage policy assigned to key h carries the authorisation `need`.
Authorized(c, h, need) ==
  \/ need = "none"
  \/ /\ h \in DOMAIN c.keypol
     /\ c.keypol[h] \in DOMAIN c.secret
     /\ AuthData(c.secret[c.keypol[h]]) = need

\* Results of a chip call that checks no authorisation.
PlainResults == {OK} \cup NativeFail
\* Results of a chip call that uses key h, whose authorisation is `need`.
AuthResults(c, h, need) ==
  (IF Authorized(c, h, need) THEN {OK} ELSE {"TPM_E_AUTHFAIL"}) \cup OtherFail

(***************************************************************************)
(* Close calls, logged.  m is [chip, clog].                                *)
(***************************************************************************)
CloseObj(m, hctx, h) ==
  [chip |-> Tspi_Context_CloseObject(m.chip, hctx, h),
   clog |-> Append(m.clog, [call |-> "CloseObject", h |-> h,
                            live |-> (Tspi_Context_CloseObject(m.chip, hctx, h) # m.chip)])]

CloseCtx(m, hctx) ==
  [chip |-> Tspi_Context_Close(m.chip, hctx),
   clog |-> Append(m.clog, [call |-> "Context_Close", h |-> hctx,
                            live |-> IsLiveCtx(m.chip, hctx)])]

M == [chip |-> chip, clog |-> closeLog]
S == st[cur]

(***************************************************************************)
(* Host memory.                                                            *)
(***************************************************************************)
\* gnutls_free(p): [heap, ub] after the call.
Free(hh, u, p) ==
  CASE p = "NULL" -> [hh |-> hh, ub |-> u]
    [] p = "GARBAGE" -> [hh |-> hh, ub |-> u \cup {"free_of_uninitialised_pointer"}]
    [] hh[p] = "freed" -> [hh |-> hh, ub |-> u \cup {"double_free"}]
    [] OTHER -> [hh |-> [hh EXCEPT ![p] = "freed"], ub |-> u]

Buffers == {"B_asn1", "B_tmpkey", "B_url", "B_pem", "B_pubkey"}

(***************************************************************************)
(* Session Manager.                                                        *)
(***************************************************************************)
\* tpm_close_session without the three assignments of 0.
tpm_close_session_keeps_handles(s, m) ==
  LET m1 == CloseObj(m, s.tpm_ctx, s.srk_policy)
      m2 == CloseObj(m1, s.tpm_ctx, s.srk)
      m3 == CloseCtx(m2, s.tpm_ctx)
  IN [s |-> s, m |-> m3]

tpm_close_session(s, m) ==
  LET m1 == CloseObj(m, s.tpm_ctx, s.srk_policy)
      m2 == CloseObj(m1, s.tpm_ctx, s.srk)
      m3 == CloseCtx(m2, s.tpm_ctx)
  IN [s |-> [s EXCEPT !.srk_policy = Null, !.srk = Null, !.tpm_ctx = Null],
      m |-> m3]

\* tpm_open_session whose every label only closes the context.
OsUnwind_context_only(label, s, m) ==
  [s |-> [s EXCEPT !.tpm_ctx = Null], m |-> CloseCtx(m, s.tpm_ctx)]

\* The cleanup labels of tpm_open_session, entered at `label`.
OsUnwind(label, s, m) ==
  LET a == IF label = "out_srkpol"
           THEN [s |-> [s EXCEPT !.srk_policy = Null],
                 m |-> CloseObj(m, s.tpm_ctx, s.srk_policy)]
           ELSE [s |-> s, m |-> m]
      b == IF label \in {"out_srkpol", "out_srk"}
           THEN [s |-> [a.s EXCEPT !.srk = Null],
                 m |-> CloseObj(a.m, a.s.tpm_ctx, a.s.srk)]
           ELSE a
  IN [s |-> [b.s EXCEPT !.tpm_ctx = Null],
      m |-> CloseCtx(b.m, b.s.tpm_ctx)]

\* tpm_open_session returned r < 0 to its caller: import_tpm_key goes to out_ctx
\* (gnutls_free(s)), import_tpm_pubkey and gnutls_tpm_privkey_generate return.
OpenFailed(s1, m1, step, err) ==
  /\ st' = [st EXCEPT ![cur] = s1]
  /\ chip' = m1.chip
  /\ closeLog' = m1.clog
  /\ ret' = tss_err(err)
  /\ fail' = [step |-> step, code |-> err]
  /\ heap' = IF op = "import_tpm_key" THEN "freed" ELSE heap
  /\ pc' = "idle"

OsCreate ==
  /\ pc = "os_create"
  /\ \E r \in PlainResults :
       IF r = OK
       THEN /\ st' = [st EXCEPT ![cur].tpm_ctx = Handle(nOps, "ctx")]
            /\ chip' = NewObject(chip, Handle(nOps, "ctx"))
            /\ openLog' = Append(openLog, Handle(nOps, "ctx"))
            /\ pc' = "os_connect"
            /\ UNCHANGED <<closeLog, ret, fail, heap>>
       ELSE /\ OpenFailed(S, M, "Tspi_Context_Create", r)
            /\ UNCHANGED openLog
  /\ UNCHANGED <<op, cur, pkey, args, ub, nOps, hash, loc, sret, ptr, hostHeap,
                 env, urlVars, sizeVars, concVars>>

OsConnect ==
  /\ pc = "os_connect"
  /\ \E r \in {OK} \cup ConnectFail :
       IF r = OK
       THEN /\ pc' = "os_loadsrk"
            /\ UNCHANGED <<st, chip, closeLog, ret, fail, heap>>
       ELSE LET u == OsUnwind("out_tspi_ctx", S, M)
            IN OpenFailed(u.s, u.m, "Tspi_Context_Connect", r)
  /\ UNCHANGED <<op, cur, openLog, pkey, args, ub, nOps, hash, loc, sret, ptr,
                 hostHeap, env, urlVars, sizeVars, concVars>>

OsLoadSrk ==
  /\ pc = "os_loadsrk"
  /\ \E r \in PlainResults :
       IF r = OK
       THEN /\ st' = [st EXCEPT ![cur].srk = Handle(S.tpm_ctx[1], "srk")]
            /\ chip' = NewObject(chip, Handle(S.tpm_ctx[1], "srk"))
            /\ openLog' = Append(openLog, Handle(S.tpm_ctx[1], "srk"))
            /\ pc' = "os_getpol"
            /\ UNCHANGED <<closeLog, ret, fail, heap>>
       ELSE LET u == OsUnwind("out_tspi_ctx", S, M)
            IN /\ OpenFailed(u.s, u.m, "Tspi_Context_LoadKeyByUUID(SRK)", r)
               /\ UNCHANGED openLog
  /\ UNCHANGED <<op, cur, pkey, args, ub, nOps, hash, loc, sret, ptr, hostHeap,
                 env, urlVars, sizeVars, concVars>>

OsGetPolicy ==
  /\ pc = "os_getpol"
  /\ \E r \in PlainResults :
       IF r = OK
       THEN LET h == Handle(S.tpm_ctx[1], "srkpol")
            IN /\ st' = [st EXCEPT ![cur].srk_policy = h]
               /\ chip' = Tspi_Policy_AssignToObject(NewObject(chip, h), h, S.srk)
               /\ openLog' = Append(openLog, h)
               /\ pc' = "os_setsecret"
               /\ UNCHANGED <<closeLog, ret, fail, heap>>
       ELSE LET u == OsUnwind("out_srk", S, M)
            IN /\ OpenFailed(u.s, u.m, "Tspi_GetPolicyObject(SRK)", r)
               /\ UNCHANGED openLog
  /\ UNCHANGED <<op, cur, pkey, args, ub, nOps, hash, loc, sret, ptr, hostHeap,
                 env, urlVars, sizeVars, concVars>>

\* The SRK secret always taken from the caller's password in plaintext mode.
SrkSecretArg_always_plain(srk_password) ==
  [mode |-> "TSS_SECRET_MODE_PLAIN", data |-> srk_password]

\* The secret tpm_open_session hands to Tspi_Policy_SetSecret.
SrkSecretArg(srk_password) ==
  IF srk_password # NULLP
  THEN [mode |-> "TSS_SECRET_MODE_PLAIN", data |-> srk_password]
  ELSE [mode |-> "TSS_SECRET_MODE_SHA1", data |-> nullpass]

\* Where a caller continues after tpm_open_session returned 0.
AfterOpen ==
  CASE op = "import_tpm_key" -> "ik_body"
    [] op = "import_tpm_pubkey" -> "ip_body"
    [] op = "tpm_open_session" -> "sess_open"
    [] OTHER -> "g_createobj"

OsSetSecret ==
  /\ pc = "os_setsecret"
  /\ \E r \in PlainResults :
       IF r = OK
       THEN LET a == SrkSecretArg(args.srk_password)
            IN /\ chip' = Tspi_Policy_SetSecret(chip, S.srk_policy, a.mode, a.data)
               /\ pc' = AfterOpen
               /\ UNCHANGED <<st, closeLog, ret, fail, heap>>
       ELSE LET u == OsUnwind("out_srkpol", S, M)
            IN OpenFailed(u.s, u.m, "Tspi_Policy_SetSecret(SRK)", r)
  /\ UNCHANGED <<op, cur, openLog, pkey, args, ub, nOps, hash, loc, sret, ptr,
                 hostHeap, env, urlVars, sizeVars, concVars>>

(***************************************************************************)
(* Entry-point bookkeeping.                                                *)
(***************************************************************************)
NoFail == [step |-> "none", code |-> "none"]
\* A struct tpm_ctx_st nothing has written yet.  polInit is history: whether
\* the code has assigned tpm_key_policy.
UninitStruct == [tpm_ctx |-> Junk, tpm_key |-> Junk, tpm_key_policy |-> Junk,
                 srk |-> Junk, srk_policy |-> Junk, polInit |-> FALSE]
\* asn1 = { NULL, 0 } in the imports.  In gnutls_tpm_privkey_generate tmpkey is
\* an uninitialised local, and *privkey and *pubkey are the caller's.
InitPtr == [asn1 |-> "NULL", tmpkey |-> "NULL", privkey |-> "NULL", pubkey |-> "NULL"]
GenPtr == [asn1 |-> "NULL", tmpkey |-> "GARBAGE", privkey |-> "GARBAGE",
           pubkey |-> "GARBAGE"]
\* The locals of gnutls_tpm_privkey_generate.  reg and unreg are history:
\* whether Tspi_Context_RegisterKey has succeeded, and whether
\* Tspi_Context_UnregisterKey has been called.
InitLoc == [key_ctx |-> Junk, key_policy |-> Junk, key_uuid |-> "none", pub |-> "uninit",
            reg |-> FALSE, unreg |-> FALSE]

SrkPasswords == {NULLP, "srkpw"}
KeyPasswords == {NULLP, "keypw", "wrong"}
\* The TSS key blob file contents handed to an import: a PEM block holding the
\* octet-string encoding of a blob, a PEM block holding something else, or the
\* bare octet-string encoding.
BlobInputs == {"PEM_OCTET", "PEM_JUNK", "OCTET"}
\* Key identifiers in the daemon's persistent store; U0 is registered from the
\* start, Ux never is, and GenUuid(n) is the one drawn by generate call n.
UuidInputs == {"U0", "Ux"}
GenUuid(n) == "G" \o ToString(n)

\* The (fdata, uuid) pairs the public entry points hand to import_tpm_key and
\* import_tpm_pubkey: *_import_tpm_raw passes uuid = NULL, *_import_tpm_url
\* passes the loaded file and no uuid, or no file and the decoded uuid.
ImportSources ==
  {[fdata |-> f, uuid |-> "none"] : f \in BlobInputs \cup {"none"}}
  \cup {[fdata |-> "none", uuid |-> u] : u \in UuidInputs}

\* What gnutls_tpm_privkey_generate stores in *privkey for a key that is not
\* registered: the octet string encoding of the chip's blob, base64 encoded
\* with a header for PEM and as it is otherwise.
GeneratedBlob(format) == IF format = "PEM" THEN "PEM_OCTET" ELSE "OCTET"

\* The format import_tpm_key is called with: the caller's choice in
\* gnutls_privkey_import_tpm_raw, 0 (DER) for a key named by UUID.
ImportFormats(src) == IF src.fdata = "none" THEN {"DER"} ELSE {"PEM", "DER"}

\* An entry point starts: the per-call history is reset.
Enter(name) ==
  /\ pc = "idle"
  /\ nOps < MaxOps
  /\ nOps' = nOps + 1
  /\ op' = name
  /\ ret' = "pending"
  /\ fail' = NoFail
  /\ openLog' = <<>>
  /\ closeLog' = <<>>
  /\ ub' = {}
  /\ hash' = Junk
  /\ sret' = "none"
  /\ loc' = InitLoc
  /\ ptr' = IF name = "generate" THEN GenPtr ELSE InitPtr
  /\ hostHeap' = [b \in Buffers |-> "none"]
  /\ st' = [st EXCEPT !["stack"] = UninitStruct]

(***************************************************************************)
(* The Session Manager on its own: tpm_open_session on a struct of the     *)
(* caller, then tpm_close_session on it, and tpm_close_session once more.  *)
(***************************************************************************)
CallOpenSession ==
  /\ Enter("tpm_open_session")
  /\ \E sp \in SrkPasswords :
       args' = [fdata |-> "none", uuid |-> "none", srk_password |-> sp,
                key_password |-> NULLP, register |-> FALSE, format |-> "PEM"]
  /\ cur' = "stack"
  /\ pc' = "os_create"
  /\ UNCHANGED <<heap, chip, pkey, env, urlVars, sizeVars, concVars>>

CloseSession ==
  /\ pc \in {"sess_open", "sess_closed"}
  /\ LET c == tpm_close_session(S, M)
     IN /\ st' = [st EXCEPT ![cur] = c.s]
        /\ chip' = c.m.chip
        /\ closeLog' = c.m.clog
  /\ pc' = IF pc = "sess_open" THEN "sess_closed" ELSE "sess_closed_twice"
  /\ ret' = IF pc = "sess_open" THEN E_SUCCESS ELSE ret
  /\ UNCHANGED <<op, cur, heap, openLog, pkey, args, fail, ub, nOps, hash, loc, sret,
                 ptr, hostHeap, env, urlVars, sizeVars, concVars>>

\* The caller is done with the struct.
EndSession ==
  /\ pc \in {"sess_closed", "sess_closed_twice"}
  /\ pc' = "idle"
  /\ UNCHANGED <<op, cur, st, heap, chip, openLog, closeLog, pkey, args, ret, fail, ub,
                 nOps, hash, loc, sret, ptr, hostHeap, env, urlVars, sizeVars, concVars>>

(***************************************************************************)
(* import_tpm_pubkey                                                       *)
(***************************************************************************)
CallImportPub ==
  /\ Enter("import_tpm_pubkey")
  /\ \E src \in ImportSources, sp \in SrkPasswords :
       args' = [fdata |-> src.fdata, uuid |-> src.uuid, srk_password |-> sp,
                key_password |-> NULLP, register |-> FALSE, format |-> "PEM"]
  /\ cur' = "stack"
  /\ pc' = "os_create"
  /\ UNCHANGED <<heap, chip, pkey, env, urlVars, sizeVars, concVars>>

\* The cleanup labels of import_tpm_pubkey, entered at `label`, and its return.
IpReturn(label, r, f) ==
  LET fr == IF label = "out_blob" THEN Free(hostHeap, ub, ptr.asn1)
            ELSE [hh |-> hostHeap, ub |-> ub]
      c == tpm_close_session(S, M)
  IN /\ hostHeap' = fr.hh
     /\ ub' = fr.ub
     /\ st' = [st EXCEPT ![cur] = c.s]
     /\ chip' = c.m.chip
     /\ closeLog' = c.m.clog
     /\ ret' = r
     /\ fail' = f
     /\ pc' = "idle"

\* gnutls_pem_base64_decode_alloc and _gnutls_x509_decode_octet_string
IpDecode ==
  /\ pc = "ip_body"
  /\ args.fdata # "none"
  /\ CASE args.fdata = "OCTET" ->
            /\ IpReturn("out_session", "GNUTLS_E_BASE64_DECODING_ERROR",
                        [step |-> "gnutls_pem_base64_decode_alloc", code |-> "none"])
            /\ UNCHANGED ptr
       [] args.fdata = "PEM_JUNK" ->
            /\ ptr' = [ptr EXCEPT !.asn1 = "B_asn1"]
            /\ LET fr == Free([hostHeap EXCEPT !["B_asn1"] = "alloc"], ub, "B_asn1")
                   c == tpm_close_session(S, M)
               IN /\ hostHeap' = fr.hh
                  /\ ub' = fr.ub
                  /\ st' = [st EXCEPT ![cur] = c.s]
                  /\ chip' = c.m.chip
                  /\ closeLog' = c.m.clog
            /\ ret' = "GNUTLS_E_ASN1_DER_ERROR"
            /\ fail' = [step |-> "_gnutls_x509_decode_octet_string", code |-> "none"]
            /\ pc' = "idle"
       [] OTHER ->
            /\ ptr' = [ptr EXCEPT !.asn1 = "B_asn1"]
            /\ hostHeap' = [hostHeap EXCEPT !["B_asn1"] = "alloc"]
            /\ pc' = "ip_loadblob"
            /\ UNCHANGED <<st, chip, closeLog, ret, fail, ub>>
  /\ UNCHANGED <<op, cur, heap, openLog, pkey, args, nOps, hash, loc, sret,
                 env, urlVars, sizeVars, concVars>>

\* Tspi_Context_LoadKeyByBlob: the key is loaded under the SRK.
IpLoadBlob ==
  /\ pc = "ip_loadblob"
  /\ \E r \in AuthResults(chip, S.srk, env.srkAuth) :
       IF r = OK
       THEN LET h == Handle(S.tpm_ctx[1], "key")
            IN /\ st' = [st EXCEPT ![cur].tpm_key = h]
               /\ chip' = NewObject(chip, h)
               /\ openLog' = Append(openLog, h)
               /\ pc' = "rp_modulus"
               /\ UNCHANGED <<closeLog, ret, fail, hostHeap, ub>>
       ELSE /\ IpReturn("out_blob", tss_err(r),
                        [step |-> "Tspi_Context_LoadKeyByBlob", code |-> r])
            /\ UNCHANGED openLog
  /\ UNCHANGED <<op, cur, heap, pkey, args, nOps, hash, loc, sret, ptr,
                 env, urlVars, sizeVars, concVars>>

\* Results of Tspi_Context_LoadKeyByUUID for a key of the persistent store.
LoadByUuidResults(c, srk, uuid, e) ==
  IF uuid \in c.store THEN AuthResults(c, srk, e.srkAuth) ELSE OtherFail

IpLoadUuid ==
  /\ pc = "ip_body"
  /\ args.fdata = "none"
  /\ args.uuid # "none"
  /\ \E r \in LoadByUuidResults(chip, S.srk, args.uuid, env) :
       IF r = OK
       THEN LET h == Handle(S.tpm_ctx[1], "key")
            IN /\ st' = [st EXCEPT ![cur].tpm_key = h]
               /\ chip' = NewObject(chip, h)
               /\ openLog' = Append(openLog, h)
               /\ pc' = "rp_modulus"
               /\ UNCHANGED <<closeLog, ret, fail, hostHeap, ub>>
       ELSE /\ IpReturn("out_session", tss_err(r),
                        [step |-> "Tspi_Context_LoadKeyByUUID", code |-> r])
            /\ UNCHANGED openLog
  /\ UNCHANGED <<op, cur, heap, pkey, args, nOps, hash, loc, sret, ptr,
                 env, urlVars, sizeVars, concVars>>

\* The neither-blob-nor-UUID branch returning at once instead of going to
\* out_session: the session stays open.
IpNoSource_without_close ==
  /\ pc = "ip_body"
  /\ args.fdata = "none"
  /\ args.uuid = "none"
  /\ ret' = "GNUTLS_E_INVALID_REQUEST"
  /\ fail' = [step |-> "neither fdata nor uuid", code |-> "none"]
  /\ pc' = "idle"
  /\ UNCHANGED <<st, chip, closeLog, hostHeap, ub>>
  /\ UNCHANGED <<op, cur, heap, openLog, pkey, args, nOps, hash, loc, sret, ptr,
                 env, urlVars, sizeVars, concVars>>

IpNoSource ==
  /\ pc = "ip_body"
  /\ args.fdata = "none"
  /\ args.uuid = "none"
  /\ IpReturn("out_session", "GNUTLS_E_INVALID_REQUEST",
              [step |-> "neither fdata nor uuid", code |-> "none"])
  /\ UNCHANGED <<op, cur, heap, openLog, pkey, args, nOps, hash, loc, sret, ptr,
                 env, urlVars, sizeVars, concVars>>

(***************************************************************************)
(* gnutls_tpm_privkey_generate                                             *)
(***************************************************************************)
CallGenerate ==
  /\ Enter("generate")
  /\ \E sp \in SrkPasswords, kp \in {NULLP, "keypw"}, reg \in BOOLEAN,
        fmt \in {"PEM", "DER"} :
       args' = [fdata |-> "none", uuid |-> "none", srk_password |-> sp,
                key_password |-> kp, register |-> reg, format |-> fmt]
  /\ cur' = "stack"
  /\ pc' = "os_create"
  /\ UNCHANGED <<heap, chip, pkey, env, urlVars, sizeVars, concVars>>

\* The cleanup labels of gnutls_tpm_privkey_generate, entered at `label` with
\* chip c0, pointers p0, host heap hh0 and locals l0, and its return.
GLabels == <<"pubkey_cleanup", "privkey_cleanup", "cleanup", "err_sa", "err_cc">>
GFrom(label) == CHOOSE i \in 1..Len(GLabels) : GLabels[i] = label

\* The cleanup labels without err_sa: the key object is never closed.
GReturn_without_err_sa(label, r, f, c0, p0, hh0, l0) ==
  LET from == GFrom(label)
      pubst == IF from <= 1 \/ r = E_SUCCESS THEN "deinit" ELSE l0.pub
      f1 == IF from <= 2 THEN Free(hh0, ub, p0.privkey) ELSE [hh |-> hh0, ub |-> ub]
      p1 == IF from <= 2 THEN [p0 EXCEPT !.privkey = "NULL"] ELSE p0
      f2 == IF from <= 3 THEN Free(f1.hh, f1.ub, p1.tmpkey) ELSE f1
      p2 == IF from <= 3 THEN [p1 EXCEPT !.tmpkey = "NULL"] ELSE p1
      c == tpm_close_session(S, [chip |-> c0, clog |-> closeLog])
  IN /\ loc' = [l0 EXCEPT !.pub = pubst]
     /\ hostHeap' = f2.hh
     /\ ub' = f2.ub
     /\ ptr' = p2
     /\ st' = [st EXCEPT ![cur] = c.s]
     /\ chip' = c.m.chip
     /\ closeLog' = c.m.clog
     /\ ret' = r
     /\ fail' = f
     /\ pc' = "idle"

GReturn(label, r, f, c0, p0, hh0, l0) ==
  LET from == GFrom(label)
      pubst == IF from <= 1 \/ r = E_SUCCESS THEN "deinit" ELSE l0.pub
      f1 == IF from <= 2 THEN Free(hh0, ub, p0.privkey) ELSE [hh |-> hh0, ub |-> ub]
      p1 == IF from <= 2 THEN [p0 EXCEPT !.privkey = "NULL"] ELSE p0
      f2 == IF from <= 3 THEN Free(f1.hh, f1.ub, p1.tmpkey) ELSE f1
      p2 == IF from <= 3 THEN [p1 EXCEPT !.tmpkey = "NULL"] ELSE p1
      m0 == [chip |-> c0, clog |-> closeLog]
      m1 == IF from <= 4 THEN CloseObj(m0, S.tpm_ctx, l0.key_ctx) ELSE m0
      c == tpm_close_session(S, m1)
  IN /\ loc' = [l0 EXCEPT !.pub = pubst]
     /\ hostHeap' = f2.hh
     /\ ub' = f2.ub
     /\ ptr' = p2
     /\ st' = [st EXCEPT ![cur] = c.s]
     /\ chip' = c.m.chip
     /\ closeLog' = c.m.clog
     /\ ret' = r
     /\ fail' = f
     /\ pc' = "idle"

GFrame == UNCHANGED <<op, cur, heap, pkey, args, nOps, hash, sret, env, urlVars, sizeVars, concVars>>
GStay == UNCHANGED <<st, closeLog, ret, fail, ub, ptr, hostHeap>>

\* Tspi_Context_CreateObject (TSS_OBJECT_TYPE_RSAKEY)
GCreateObject ==
  /\ pc = "g_createobj"
  /\ \E r \in PlainResults :
       IF r = OK
       THEN LET h == Handle(S.tpm_ctx[1], "key")
            IN /\ loc' = [loc EXCEPT !.key_ctx = h]
               /\ chip' = NewObject(chip, h)
               /\ openLog' = Append(openLog, h)
               /\ pc' = "g_setattr"
               /\ GStay
       ELSE /\ GReturn("err_cc", tss_err(r),
                       [step |-> "Tspi_Context_CreateObject(RSAKEY)", code |-> r],
                       chip, ptr, hostHeap, loc)
            /\ UNCHANGED openLog
  /\ GFrame

\* Tspi_SetAttribUint32 (signature scheme)
GSetAttrib ==
  /\ pc = "g_setattr"
  /\ \E r \in PlainResults :
       IF r = OK
       THEN /\ pc' = IF args.key_password # NULLP THEN "g_getpol" ELSE "g_createkey"
            /\ UNCHANGED <<loc, chip>>
            /\ GStay
       ELSE GReturn("err_sa", tss_err(r), [step |-> "Tspi_SetAttribUint32", code |-> r],
                    chip, ptr, hostHeap, loc)
  /\ UNCHANGED openLog
  /\ GFrame

\* Tspi_GetPolicyObject (key usage policy)
GGetPolicy ==
  /\ pc = "g_getpol"
  /\ \E r \in PlainResults :
       IF r = OK
       THEN LET h == Handle(S.tpm_ctx[1], "keypol")
            IN /\ loc' = [loc EXCEPT !.key_policy = h]
               /\ chip' = Tspi_Policy_AssignToObject(NewObject(chip, h), h, loc.key_ctx)
               /\ openLog' = Append(openLog, h)
               /\ pc' = "g_setsecret"
               /\ GStay
       ELSE /\ GReturn("err_sa", tss_err(r), [step |-> "Tspi_GetPolicyObject(key)", code |-> r],
                       chip, ptr, hostHeap, loc)
            /\ UNCHANGED openLog
  /\ GFrame

\* Tspi_Policy_SetSecret (key password)
GSetSecret ==
  /\ pc = "g_setsecret"
  /\ \E r \in PlainResults :
       IF r = OK
       THEN /\ chip' = Tspi_Policy_SetSecret(chip, loc.key_policy, "TSS_SECRET_MODE_PLAIN",
                                             args.key_password)
            /\ pc' = "g_createkey"
            /\ UNCHANGED loc
            /\ GStay
       ELSE GReturn("err_sa", tss_err(r), [step |-> "Tspi_Policy_SetSecret(key)", code |-> r],
                    chip, ptr, hostHeap, loc)
  /\ UNCHANGED openLog
  /\ GFrame

\* Tspi_Key_CreateKey: the key pair is generated under the SRK.
GCreateKey ==
  /\ pc = "g_createkey"
  /\ \E r \in AuthResults(chip, S.srk, env.srkAuth) :
       IF r = OK
       THEN /\ pc' = IF args.register THEN "g_rand" ELSE "g_getblob"
            /\ UNCHANGED <<loc, chip>>
            /\ GStay
       ELSE GReturn("err_sa", tss_err(r), [step |-> "Tspi_Key_CreateKey", code |-> r],
                    chip, ptr, hostHeap, loc)
  /\ UNCHANGED openLog
  /\ GFrame

\* randomize_uuid
GRandomizeUuid ==
  /\ pc = "g_rand"
  /\ \E ok \in BOOLEAN :
       IF ok
       THEN /\ loc' = [loc EXCEPT !.key_uuid = GenUuid(nOps)]
            /\ pc' = "g_register"
            /\ UNCHANGED chip
            /\ GStay
       ELSE GReturn("err_sa", "GNUTLS_E_RANDOM_FAILED",
                    [step |-> "randomize_uuid", code |-> "none"], chip, ptr, hostHeap, loc)
  /\ UNCHANGED openLog
  /\ GFrame

\* Tspi_Context_RegisterKey
GRegisterKey ==
  /\ pc = "g_register"
  /\ \E r \in PlainResults :
       IF r = OK
       THEN /\ chip' = [chip EXCEPT !.store = @ \cup {loc.key_uuid}]
            /\ loc' = [loc EXCEPT !.reg = TRUE]
            /\ pc' = "g_encode"
            /\ GStay
       ELSE GReturn("err_sa", tss_err(r), [step |-> "Tspi_Context_RegisterKey", code |-> r],
                    chip, ptr, hostHeap, loc)
  /\ UNCHANGED openLog
  /\ GFrame

\* Tspi_Context_UnregisterKey, whose result the code ignores.
Unregister(c, uuid, r) == IF r = OK THEN [c EXCEPT !.store = @ \ {uuid}] ELSE c

\* encode_tpmkey_url, and the unregistration when it fails
GEncodeUrl ==
  /\ pc = "g_encode"
  /\ \E ok \in BOOLEAN :
       IF ok
       THEN /\ ptr' = [ptr EXCEPT !.privkey = "B_url"]
            /\ hostHeap' = [hostHeap EXCEPT !["B_url"] = "alloc"]
            /\ pc' = "g_pubinit"
            /\ UNCHANGED <<loc, chip, st, closeLog, ret, fail, ub>>
       ELSE \E r \in PlainResults :
              GReturn("err_sa", "GNUTLS_E_MEMORY_ERROR",
                      [step |-> "encode_tpmkey_url", code |-> "none"],
                      Unregister(chip, loc.key_uuid, r), ptr, hostHeap,
                      [loc EXCEPT !.unreg = TRUE])
  /\ UNCHANGED openLog
  /\ GFrame

\* Tspi_GetAttribData (TSS_TSPATTRIB_KEYBLOB_BLOB)
GGetBlob ==
  /\ pc = "g_getblob"
  /\ \E r \in PlainResults :
       IF r = OK
       THEN /\ pc' = "g_encode_os"
            /\ UNCHANGED <<loc, chip>>
            /\ GStay
       ELSE GReturn("err_sa", tss_err(r), [step |-> "Tspi_GetAttribData(blob)", code |-> r],
                    chip, ptr, hostHeap, loc)
  /\ UNCHANGED openLog
  /\ GFrame

\* _gnutls_x509_encode_octet_string (tdata, tint, &tmpkey); a failing call
\* leaves tmpkey as it was or cleared.
GEncodeOctetString ==
  /\ pc = "g_encode_os"
  /\ \E ok \in BOOLEAN :
       IF ok
       THEN /\ ptr' = [ptr EXCEPT !.tmpkey = "B_tmpkey"]
            /\ hostHeap' = [hostHeap EXCEPT !["B_tmpkey"] = "alloc"]
            /\ pc' = "g_format"
            /\ UNCHANGED <<loc, chip, st, closeLog, ret, fail, ub>>
       ELSE \E left \in {ptr.tmpkey, "NULL"} :
              GReturn("cleanup", "GNUTLS_E_MEMORY_ERROR",
                      [step |-> "_gnutls_x509_encode_octet_string", code |-> "none"],
                      chip, [ptr EXCEPT !.tmpkey = left], hostHeap, loc)
  /\ UNCHANGED openLog
  /\ GFrame

\* _gnutls_fbase64_encode for PEM, or handing tmpkey over to *privkey
GFormat ==
  /\ pc = "g_format"
  /\ IF args.format = "PEM"
     THEN \E ok \in BOOLEAN :
            IF ok
            THEN /\ ptr' = [ptr EXCEPT !.privkey = "B_pem"]
                 /\ hostHeap' = [hostHeap EXCEPT !["B_pem"] = "alloc"]
                 /\ pc' = "g_pubinit"
                 /\ UNCHANGED <<loc, chip, st, closeLog, ret, fail, ub>>
            ELSE GReturn("cleanup", "GNUTLS_E_MEMORY_ERROR",
                         [step |-> "_gnutls_fbase64_encode", code |-> "none"],
                         chip, ptr, hostHeap, loc)
     ELSE /\ ptr' = [ptr EXCEPT !.privkey = ptr.tmpkey, !.tmpkey = "NULL"]
          /\ pc' = "g_pubinit"
          /\ UNCHANGED <<loc, chip, st, closeLog, ret, fail, ub, hostHeap>>
  /\ UNCHANGED openLog
  /\ GFrame

\* gnutls_pubkey_init
GPubkeyInit ==
  /\ pc = "g_pubinit"
  /\ \E ok \in BOOLEAN :
       IF ok
       THEN /\ loc' = [loc EXCEPT !.pub = "init"]
            /\ pc' = "rp_modulus"
            /\ UNCHANGED chip
            /\ GStay
       ELSE GReturn("privkey_cleanup", "GNUTLS_E_MEMORY_ERROR",
                    [step |-> "gnutls_pubkey_init", code |-> "none"], chip, ptr, hostHeap, loc)
  /\ UNCHANGED openLog
  /\ GFrame

\* gnutls_malloc (psize)
GMalloc ==
  /\ pc = "g_malloc"
  /\ \E ok \in BOOLEAN :
       IF ok
       THEN /\ ptr' = [ptr EXCEPT !.pubkey = "B_pubkey"]
            /\ hostHeap' = [hostHeap EXCEPT !["B_pubkey"] = "alloc"]
            /\ pc' = "g_export"
            /\ UNCHANGED <<loc, chip, st, closeLog, ret, fail, ub>>
       ELSE GReturn("pubkey_cleanup", "GNUTLS_E_MEMORY_ERROR",
                    [step |-> "gnutls_malloc(pubkey)", code |-> "none"],
                    chip, [ptr EXCEPT !.pubkey = "NULL"], hostHeap, loc)
  /\ UNCHANGED openLog
  /\ GFrame

\* gnutls_pubkey_export, and the successful end: gnutls_pubkey_deinit, ret = 0,
\* goto cleanup
GExport ==
  /\ pc = "g_export"
  /\ \E ok \in BOOLEAN :
       IF ok
       THEN GReturn("cleanup", E_SUCCESS, NoFail, chip, ptr, hostHeap, loc)
       ELSE GReturn("pubkey_cleanup", "GNUTLS_E_SHORT_MEMORY_BUFFER",
                    [step |-> "gnutls_pubkey_export", code |-> "none"], chip, ptr, hostHeap, loc)
  /\ UNCHANGED openLog
  /\ GFrame

(***************************************************************************)
(* read_pubkey, called by import_tpm_pubkey and gnutls_tpm_privkey_generate *)
(***************************************************************************)
\* read_pubkey returned r: import_tpm_pubkey falls or jumps into out_blob,
\* gnutls_tpm_privkey_generate goes on or jumps to privkey_cleanup.
ReadPubkeyReturned(r, f) ==
  IF op = "import_tpm_pubkey"
  THEN /\ IpReturn("out_blob", r, f)
       /\ UNCHANGED <<loc, ptr>>
  ELSE IF r = E_SUCCESS
       THEN /\ pc' = "g_malloc"
            /\ UNCHANGED <<loc, chip>>
            /\ GStay
       ELSE GReturn("privkey_cleanup", r, f, chip, ptr, hostHeap, loc)

RpFrame == UNCHANGED <<op, cur, heap, openLog, pkey, args, nOps, hash, sret, env, urlVars, sizeVars, concVars>>

\* Tspi_GetAttribData (TSS_TSPATTRIB_KEYINFO_RSA_MODULUS)
RpModulus ==
  /\ pc = "rp_modulus"
  /\ \E r \in PlainResults :
       IF r = OK
       THEN /\ pc' = "rp_exponent"
            /\ UNCHANGED <<loc, chip>>
            /\ GStay
       ELSE ReadPubkeyReturned(tss_err(r), [step |-> "Tspi_GetAttribData(modulus)", code |-> r])
  /\ RpFrame

\* Tspi_GetAttribData (TSS_TSPATTRIB_KEYINFO_RSA_EXPONENT)
RpExponent ==
  /\ pc = "rp_exponent"
  /\ \E r \in PlainResults :
       IF r = OK
       THEN /\ pc' = "rp_import"
            /\ UNCHANGED <<loc, chip>>
            /\ GStay
       ELSE ReadPubkeyReturned(tss_err(r), [step |-> "Tspi_GetAttribData(exponent)", code |-> r])
  /\ RpFrame

\* gnutls_pubkey_import_rsa_raw
RpImport ==
  /\ pc = "rp_import"
  /\ \E ok \in BOOLEAN :
       IF ok
       THEN ReadPubkeyReturned(E_SUCCESS, NoFail)
       ELSE ReadPubkeyReturned("GNUTLS_E_MEMORY_ERROR",
                               [step |-> "gnutls_pubkey_import_rsa_raw", code |-> "none"])
  /\ RpFrame

(***************************************************************************)
(* Signing Delegate: tpm_sign_fn and tpm_deinit_fn                          *)
(***************************************************************************)
\* tpm_sign_fn reporting insufficient credentials only while the key has no
\* policy.
SignError_by_policy(s, err) ==
  IF err = "TPM_E_AUTHFAIL" /\ s.tpm_key_policy = Null
  THEN "GNUTLS_E_INSUFFICIENT_CREDENTIALS"
  ELSE "GNUTLS_E_PK_SIGN_FAILED"

\* What tpm_sign_fn returns when Tspi_Hash_Sign returned err # 0.
SignError(s, err) ==
  IF err = "TPM_E_AUTHFAIL"
  THEN "GNUTLS_E_INSUFFICIENT_CREDENTIALS"
  ELSE "GNUTLS_E_PK_SIGN_FAILED"

\* A read of s->tpm_key_policy: indeterminate until the code has assigned it.
ReadPolicy(s, u) == IF s.polInit THEN u ELSE u \cup {"read_of_uninitialised_tpm_key_policy"}

\* tpm_deinit_fn closing the session before the key policy and the key.
tpm_deinit_fn_session_first(s, m) ==
  LET c == tpm_close_session(s, m)
      m1 == CloseObj(c.m, s.tpm_ctx, s.tpm_key_policy)
      m2 == CloseObj(m1, s.tpm_ctx, s.tpm_key)
  IN [s |-> c.s, m |-> m2]

tpm_deinit_fn(s, m) ==
  LET m1 == CloseObj(m, s.tpm_ctx, s.tpm_key_policy)
      m2 == CloseObj(m1, s.tpm_ctx, s.tpm_key)
  IN tpm_close_session(s, m2)

(***************************************************************************)
(* import_tpm_key                                                          *)
(***************************************************************************)
CallImportPriv ==
  /\ Enter("import_tpm_key")
  /\ pkey.state = "fresh"
  /\ \E src \in ImportSources, sp \in SrkPasswords, kp \in KeyPasswords :
     \E fmt \in ImportFormats(src) :
       args' = [fdata |-> src.fdata, uuid |-> src.uuid, srk_password |-> sp,
                key_password |-> kp, register |-> FALSE, format |-> fmt]
  /\ cur' = "heap"
  /\ pc' = "ik_malloc"
  /\ UNCHANGED <<heap, chip, pkey, env, urlVars, sizeVars, concVars>>

\* s = gnutls_malloc (sizeof (*s)): the fields are not initialised.  Of their
\* indeterminate values only that of tpm_key_policy is ever read.
IkMalloc ==
  /\ pc = "ik_malloc"
  /\ \E ok \in BOOLEAN :
       IF ok
       THEN /\ \E v \in {Null, Junk} :
                 st' = [st EXCEPT !["heap"] = [UninitStruct EXCEPT !.tpm_key_policy = v]]
            /\ heap' = "alloc"
            /\ pc' = "os_create"
            /\ UNCHANGED <<ret, fail>>
       ELSE /\ ret' = "GNUTLS_E_MEMORY_ERROR"
            /\ fail' = [step |-> "gnutls_malloc(s)", code |-> "none"]
            /\ pc' = "idle"
            /\ UNCHANGED <<st, heap>>
  /\ UNCHANGED <<op, cur, chip, openLog, closeLog, pkey, args, ub, nOps, hash, loc,
                 sret, ptr, hostHeap, env, urlVars, sizeVars, concVars>>

\* The cleanup labels of import_tpm_key, entered at `label` with chip and close
\* log m0, pointers' heap hh0 and events u0, and its return.
IkLabels == <<"out_key_policy", "out_key", "out_blob", "out_session", "out_ctx">>
IkFrom(label) == CHOOSE i \in 1..Len(IkLabels) : IkLabels[i] = label

IkUnwind(label, s, m0) ==
  LET from == IkFrom(label)
      a == IF from <= 1
           THEN [s |-> [s EXCEPT !.tpm_key_policy = Null, !.polInit = TRUE],
                 m |-> CloseObj(m0, s.tpm_ctx, s.tpm_key_policy)]
           ELSE [s |-> s, m |-> m0]
      b == IF from <= 2
           THEN [s |-> [a.s EXCEPT !.tpm_key = Null],
                 m |-> CloseObj(a.m, a.s.tpm_ctx, a.s.tpm_key)]
           ELSE a
  IN IF from <= 4 THEN tpm_close_session(b.s, b.m) ELSE b

IkReturn(label, r, f, m0, hh0, u0) ==
  LET w == IkUnwind(label, S, m0)
      fr == IF IkFrom(label) <= 3 THEN Free(hh0, u0, ptr.asn1) ELSE [hh |-> hh0, ub |-> u0]
  IN /\ st' = [st EXCEPT ![cur] = w.s]
     /\ chip' = w.m.chip
     /\ closeLog' = w.m.clog
     /\ hostHeap' = fr.hh
     /\ ub' = fr.ub
     /\ heap' = "freed"
     /\ ret' = r
     /\ fail' = f
     /\ pc' = "idle"

IkFrame == UNCHANGED <<op, cur, args, nOps, loc, env, urlVars, sizeVars, concVars>>

\* gnutls_pem_base64_decode_alloc and _gnutls_x509_decode_octet_string
IkDecode ==
  /\ pc = "ik_body"
  /\ args.fdata # "none"
  /\ CASE args.fdata = "OCTET" ->
            /\ IkReturn("out_session", "GNUTLS_E_BASE64_DECODING_ERROR",
                        [step |-> "gnutls_pem_base64_decode_alloc", code |-> "none"],
                        M, hostHeap, ub)
            /\ UNCHANGED ptr
       [] args.fdata = "PEM_JUNK" ->
            /\ ptr' = [ptr EXCEPT !.asn1 = "B_asn1"]
            /\ LET w == IkUnwind("out_blob", S, M)
                   fr == Free([hostHeap EXCEPT !["B_asn1"] = "alloc"], ub, "B_asn1")
               IN /\ st' = [st EXCEPT ![cur] = w.s]
                  /\ chip' = w.m.chip
                  /\ closeLog' = w.m.clog
                  /\ hostHeap' = fr.hh
                  /\ ub' = fr.ub
            /\ heap' = "freed"
            /\ ret' = "GNUTLS_E_ASN1_DER_ERROR"
            /\ fail' = [step |-> "_gnutls_x509_decode_octet_string", code |-> "none"]
            /\ pc' = "idle"
       [] OTHER ->
            /\ ptr' = [ptr EXCEPT !.asn1 = "B_asn1"]
            /\ hostHeap' = [hostHeap EXCEPT !["B_asn1"] = "alloc"]
            /\ pc' = "ik_loadblob"
            /\ UNCHANGED <<st, chip, closeLog, ret, fail, ub, heap>>
  /\ UNCHANGED <<openLog, pkey, hash, sret>>
  /\ IkFrame

\* The load step tolerating a failure when no SRK password was given: the
\* import goes on with the key handle as it was.
IkLoadBlob_tolerant ==
  /\ pc = "ik_loadblob"
  /\ \E r \in AuthResults(chip, S.srk, env.srkAuth) :
       IF r = OK
       THEN LET h == Handle(S.tpm_ctx[1], "key")
            IN /\ st' = [st EXCEPT ![cur].tpm_key = h]
               /\ chip' = NewObject(chip, h)
               /\ openLog' = Append(openLog, h)
               /\ pc' = "ik_register"
               /\ UNCHANGED <<closeLog, ret, fail, hostHeap, ub, heap>>
       ELSE IF args.srk_password = NULLP
       THEN /\ pc' = "ik_register"
            /\ UNCHANGED <<st, chip, openLog, closeLog, ret, fail, hostHeap, ub, heap>>
       ELSE /\ IkReturn("out_blob", tss_err(r),
                        [step |-> "Tspi_Context_LoadKeyByBlob", code |-> r],
                        M, hostHeap, ub)
            /\ UNCHANGED openLog
  /\ UNCHANGED <<pkey, hash, sret, ptr>>
  /\ IkFrame

\* Tspi_Context_LoadKeyByBlob
IkLoadBlob ==
  /\ pc = "ik_loadblob"
  /\ \E r \in AuthResults(chip, S.srk, env.srkAuth) :
       IF r = OK
       THEN LET h == Handle(S.tpm_ctx[1], "key")
            IN /\ st' = [st EXCEPT ![cur].tpm_key = h]
               /\ chip' = NewObject(chip, h)
               /\ openLog' = Append(openLog, h)
               /\ pc' = "ik_register"
               /\ UNCHANGED <<closeLog, ret, fail, hostHeap, ub, heap>>
       ELSE /\ IkReturn("out_blob", tss_err(r),
                        [step |-> "Tspi_Context_LoadKeyByBlob", code |-> r],
                        M, hostHeap, ub)
            /\ UNCHANGED openLog
  /\ UNCHANGED <<pkey, hash, sret, ptr>>
  /\ IkFrame

\* Tspi_Context_LoadKeyByUUID
IkLoadUuid ==
  /\ pc = "ik_body"
  /\ args.fdata = "none"
  /\ args.uuid # "none"
  /\ \E r \in LoadByUuidResults(chip, S.srk, args.uuid, env) :
       IF r = OK
       THEN LET h == Handle(S.tpm_ctx[1], "key")
            IN /\ st' = [st EXCEPT ![cur].tpm_key = h]
               /\ chip' = NewObject(chip, h)
               /\ openLog' = Append(openLog, h)
               /\ pc' = "ik_register"
               /\ UNCHANGED <<closeLog, ret, fail, hostHeap, ub, heap>>
       ELSE /\ IkReturn("out_session", tss_err(r),
                        [step |-> "Tspi_Context_LoadKeyByUUID", code |-> r],
                        M, hostHeap, ub)
            /\ UNCHANGED openLog
  /\ UNCHANGED <<pkey, hash, sret, ptr>>
  /\ IkFrame

IkNoSource ==
  /\ pc = "ik_body"
  /\ args.fdata = "none"
  /\ args.uuid = "none"
  /\ IkReturn("out_session", "GNUTLS_E_INVALID_REQUEST",
              [step |-> "neither fdata nor uuid", code |-> "none"], M, hostHeap, ub)
  /\ UNCHANGED <<openLog, pkey, hash, sret, ptr>>
  /\ IkFrame

\* gnutls_privkey_import_ext2 (pkey, GNUTLS_PK_RSA, s, tpm_sign_fn, NULL,
\* tpm_deinit_fn, 0): the abstract key takes the callbacks and s, or refuses.
gnutls_privkey_import_ext2(k, ok) ==
  IF ok THEN [k EXCEPT !.state = "registered"] ELSE k

IkRegister ==
  /\ pc = "ik_register"
  /\ \E ok \in BOOLEAN :
       IF ok
       THEN /\ pkey' = gnutls_privkey_import_ext2(pkey, TRUE)
            /\ pc' = "ik_trial"
            /\ UNCHANGED <<st, chip, closeLog, ret, fail, hostHeap, ub, heap>>
       ELSE /\ IkReturn("out_session", "GNUTLS_E_INVALID_REQUEST",
                        [step |-> "gnutls_privkey_import_ext2", code |-> "none"],
                        M, hostHeap, ub)
            /\ UNCHANGED pkey
  /\ UNCHANGED <<openLog, hash, sret, ptr>>
  /\ IkFrame

\* gnutls_privkey_sign_data (pkey, GNUTLS_DIG_SHA1, 0, fdata, &tmp_sig): hashes
\* *fdata and calls tpm_sign_fn with the digest.  With fdata = NULL the hashing
\* dereferences a null pointer.
IkTrialSign ==
  /\ pc = "ik_trial"
  /\ IF args.fdata = "none"
     THEN /\ ub' = ub \cup {"null_data_dereference"}
          /\ pc' \in {"sg_create", "crashed"}
     ELSE /\ pc' = "sg_create"
          /\ UNCHANGED ub
  /\ UNCHANGED <<st, heap, chip, openLog, closeLog, pkey, ret, fail, hash, sret, ptr,
                 hostHeap>>
  /\ IkFrame

(***************************************************************************)
(* tpm_sign_fn, step by step.  It runs for the application's sign calls    *)
(* (op = "sign") and for the trial sign of import_tpm_key.                 *)
(***************************************************************************)
\* gnutls_privkey_sign_data on the imported key.  A sign call opens no
\* session, so it does not count as one of the MaxOps session calls.
CallSign ==
  /\ pc = "idle"
  /\ pkey.state = "registered"
  /\ pkey.usable
  /\ op' = "sign"
  /\ ret' = "pending"
  /\ fail' = NoFail
  /\ openLog' = <<>>
  /\ closeLog' = <<>>
  /\ ub' = {}
  /\ hash' = Junk
  /\ sret' = "none"
  /\ cur' = "heap"
  /\ pc' = "sg_create"
  /\ UNCHANGED <<st, heap, chip, pkey, args, nOps, loc, ptr, hostHeap, env, urlVars, sizeVars, concVars>>

\* tpm_sign_fn returned r with chip and close log m1 and events u1.  The
\* application gets r; import_tpm_key (lines 326-375) creates the key policy
\* on GNUTLS_E_INSUFFICIENT_CREDENTIALS, fails on another error, and
\* otherwise frees asn1.data and returns 0.
SignReturned(r, f, m1, u1) ==
  /\ sret' = r
  /\ IF op = "sign"
     THEN /\ ret' = r
          /\ fail' = f
          /\ pc' = "idle"
          /\ chip' = m1.chip
          /\ closeLog' = m1.clog
          /\ ub' = u1
          /\ UNCHANGED <<st, heap, hostHeap, pkey>>
     ELSE CASE r = "GNUTLS_E_INSUFFICIENT_CREDENTIALS" ->
                 /\ pc' = IF S.tpm_key_policy = Null THEN "ik_createpol" ELSE "ik_setsecret"
                 /\ ub' = ReadPolicy(S, u1)
                 /\ chip' = m1.chip
                 /\ closeLog' = m1.clog
                 /\ UNCHANGED <<st, heap, hostHeap, pkey, ret, fail>>
            [] r = E_SUCCESS ->
                 LET fr == Free(hostHeap, u1, ptr.asn1)
                 IN /\ hostHeap' = fr.hh
                    /\ ub' = fr.ub
                    /\ chip' = m1.chip
                    /\ closeLog' = m1.clog
                    /\ pkey' = [pkey EXCEPT !.usable = TRUE]
                    /\ ret' = E_SUCCESS
                    /\ pc' = "idle"
                    /\ UNCHANGED <<st, heap, fail>>
            [] OTHER ->
                 /\ IkReturn("out_blob", r, f, m1, hostHeap, u1)
                 /\ UNCHANGED pkey

SgFrame == UNCHANGED <<op, cur, args, nOps, loc, ptr, env, urlVars, sizeVars, concVars>>

\* tpm_sign_fn returning the Error Mapper's value when the hash object cannot
\* be created.
SgCreateHash_mapped_error ==
  /\ pc = "sg_create"
  /\ \E r \in PlainResults :
       IF r = OK
       THEN LET h == Handle(S.tpm_ctx[1], "hash")
            IN /\ hash' = h
               /\ chip' = NewObject(chip, h)
               /\ openLog' = Append(openLog, h)
               /\ pc' = "sg_sethash"
               /\ UNCHANGED <<st, heap, closeLog, pkey, ret, fail, ub, sret, hostHeap>>
       ELSE /\ SignReturned(tss_err(r),
                            [step |-> "Tspi_Context_CreateObject(HASH)", code |-> r], M, ub)
            /\ UNCHANGED <<hash, openLog>>
  /\ SgFrame

\* Tspi_Context_CreateObject (TSS_OBJECT_TYPE_HASH)
SgCreateHash ==
  /\ pc = "sg_create"
  /\ \E r \in PlainResults :
       IF r = OK
       THEN LET h == Handle(S.tpm_ctx[1], "hash")
            IN /\ hash' = h
               /\ chip' = NewObject(chip, h)
               /\ openLog' = Append(openLog, h)
               /\ pc' = "sg_sethash"
               /\ UNCHANGED <<st, heap, closeLog, pkey, ret, fail, ub, sret, hostHeap>>
       ELSE /\ SignReturned("GNUTLS_E_PK_SIGN_FAILED",
                            [step |-> "Tspi_Context_CreateObject(HASH)", code |-> r], M, ub)
            /\ UNCHANGED <<hash, openLog>>
  /\ SgFrame

\* tpm_sign_fn returning on a failed Tspi_Hash_SetHashValue without closing
\* the hash object.
SgSetHashValue_leaks_hash ==
  /\ pc = "sg_sethash"
  /\ \E r \in PlainResults :
       IF r = OK
       THEN /\ pc' = "sg_sign"
            /\ UNCHANGED <<st, heap, chip, closeLog, pkey, ret, fail, ub, sret, hostHeap>>
       ELSE SignReturned("GNUTLS_E_PK_SIGN_FAILED",
                         [step |-> "Tspi_Hash_SetHashValue", code |-> r], M, ub)
  /\ UNCHANGED <<hash, openLog>>
  /\ SgFrame

\* Tspi_Hash_SetHashValue
SgSetHashValue ==
  /\ pc = "sg_sethash"
  /\ \E r \in PlainResults :
       IF r = OK
       THEN /\ pc' = "sg_sign"
            /\ UNCHANGED <<st, heap, chip, closeLog, pkey, ret, fail, ub, sret, hostHeap>>
       ELSE SignReturned("GNUTLS_E_PK_SIGN_FAILED",
                         [step |-> "Tspi_Hash_SetHashValue", code |-> r],
                         CloseObj(M, S.tpm_ctx, hash), ub)
  /\ UNCHANGED <<hash, openLog>>
  /\ SgFrame

\* Tspi_Hash_Sign, Tspi_Context_CloseObject (hash) and the error classification
SgHashSign ==
  /\ pc = "sg_sign"
  /\ \E r \in AuthResults(chip, S.tpm_key, env.keyAuth) :
       IF r = OK
       THEN SignReturned(E_SUCCESS, NoFail, CloseObj(M, S.tpm_ctx, hash), ub)
       ELSE SignReturned(SignError(S, r), [step |-> "Tspi_Hash_Sign", code |-> r],
                         CloseObj(M, S.tpm_ctx, hash), ReadPolicy(S, ub))
  /\ UNCHANGED <<hash, openLog>>
  /\ SgFrame

(***************************************************************************)
(* import_tpm_key after the trial sign: the key policy.                    *)
(***************************************************************************)
\* Results of a chip call on policy handle h.
PolicyResults(c, h) == IF h \in c.live THEN PlainResults ELSE {"TSS_E_FAIL"}

\* Tspi_Context_CreateObject (TSS_OBJECT_TYPE_POLICY)
IkCreatePolicy ==
  /\ pc = "ik_createpol"
  /\ \E r \in PlainResults :
       IF r = OK
       THEN LET h == Handle(S.tpm_ctx[1], "keypol")
            IN /\ st' = [st EXCEPT ![cur].tpm_key_policy = h, ![cur].polInit = TRUE]
               /\ chip' = NewObject(chip, h)
               /\ openLog' = Append(openLog, h)
               /\ pc' = "ik_assign"
               /\ UNCHANGED <<closeLog, ret, fail, hostHeap, ub, heap>>
       ELSE /\ IkReturn("out_key", tss_err(r),
                        [step |-> "Tspi_Context_CreateObject(POLICY)", code |-> r],
                        M, hostHeap, ub)
            /\ UNCHANGED openLog
  /\ UNCHANGED <<pkey, hash, sret, ptr>>
  /\ IkFrame

\* Tspi_Policy_AssignToObject
IkAssignPolicy ==
  /\ pc = "ik_assign"
  /\ \E r \in PlainResults :
       IF r = OK
       THEN /\ chip' = Tspi_Policy_AssignToObject(chip, S.tpm_key_policy, S.tpm_key)
            /\ pc' = "ik_setsecret"
            /\ UNCHANGED <<st, closeLog, ret, fail, hostHeap, ub, heap>>
       ELSE IkReturn("out_key_policy", tss_err(r),
                     [step |-> "Tspi_Policy_AssignToObject", code |-> r], M, hostHeap, ub)
  /\ UNCHANGED <<openLog, pkey, hash, sret, ptr>>
  /\ IkFrame

\* Tspi_Policy_SetSecret (s->tpm_key_policy, TSS_SECRET_MODE_PLAIN,
\* strlen (key_password), key_password), and the successful end.
\* strlen (NULL) is undefined: the call crashes or hands the chip whatever
\* it read.
IkSetSecret ==
  /\ pc = "ik_setsecret"
  /\ \/ /\ args.key_password = NULLP
        /\ pc' = "crashed"
        /\ ub' = ub \cup {"strlen_of_null_key_password"}
        /\ UNCHANGED <<st, chip, closeLog, ret, fail, hostHeap, heap, pkey>>
     \/ \E r \in PolicyResults(chip, S.tpm_key_policy) :
          LET u1 == IF args.key_password = NULLP
                    THEN ub \cup {"strlen_of_null_key_password"} ELSE ub
              data == IF args.key_password = NULLP THEN "GARBAGE" ELSE args.key_password
          IN IF r = OK
             THEN LET fr == Free(hostHeap, u1, ptr.asn1)
                  IN /\ chip' = Tspi_Policy_SetSecret(chip, S.tpm_key_policy,
                                                      "TSS_SECRET_MODE_PLAIN", data)
                     /\ hostHeap' = fr.hh
                     /\ ub' = fr.ub
                     /\ pkey' = [pkey EXCEPT !.usable = TRUE]
                     /\ ret' = E_SUCCESS
                     /\ pc' = "idle"
                     /\ UNCHANGED <<st, closeLog, fail, heap>>
             ELSE /\ IkReturn("out_key_policy", "GNUTLS_E_TPM_KEY_PASSWORD_ERROR",
                              [step |-> "Tspi_Policy_SetSecret(key)", code |-> r],
                              M, hostHeap, u1)
                  /\ UNCHANGED pkey
  /\ UNCHANGED <<openLog, hash, sret, ptr>>
  /\ IkFrame

(***************************************************************************)
(* gnutls_privkey_deinit: the abstract key is destroyed and calls the      *)
(* deinit callback it was registered with.                                 *)
(***************************************************************************)
DestroyKey ==
  /\ pc = "idle"
  /\ pkey.state # "destroyed"
  /\ op' = "deinit"
  /\ cur' = "heap"
  /\ ret' = "void"
  /\ fail' = NoFail
  /\ openLog' = <<>>
  /\ hash' = Junk
  /\ sret' = "none"
  /\ pkey' = [pkey EXCEPT !.state = "destroyed", !.usable = FALSE]
  /\ CASE pkey.state = "fresh" ->
            /\ closeLog' = <<>>
            /\ pc' = "idle"
            /\ ub' = {}
            /\ UNCHANGED <<st, heap, chip>>
       [] pkey.state = "registered" /\ heap = "alloc" ->
            LET d == tpm_deinit_fn(st["heap"], [chip |-> chip, clog |-> <<>>])
            IN /\ st' = [st EXCEPT !["heap"] = d.s]
               /\ chip' = d.m.chip
               /\ closeLog' = d.m.clog
               /\ heap' = "freed"
               /\ ub' = ReadPolicy(st["heap"], {})
               /\ pc' = "idle"
       [] OTHER ->
            \* s was freed by import_tpm_key: the callback reads freed memory
            \* and frees it again.
            LET d == tpm_deinit_fn(st["heap"], [chip |-> chip, clog |-> <<>>])
            IN /\ ub' = {"use_after_free", "double_free"}
               /\ \/ /\ pc' = "crashed"
                     /\ closeLog' = <<>>
                     /\ UNCHANGED <<st, chip>>
                  \/ /\ pc' = "idle"
                     /\ st' = [st EXCEPT !["heap"] = d.s]
                     /\ chip' = d.m.chip
                     /\ closeLog' = d.m.clog
               /\ UNCHANGED heap
  /\ UNCHANGED <<args, nOps, loc, ptr, hostHeap, env, urlVars, sizeVars, concVars>>

(***************************************************************************)
(* Locator Codec.  A C string is the sequence of its characters.           *)
(***************************************************************************)
UUID_SIZE == 16

HexDigits == <<"0", "1", "2", "3", "4", "5", "6", "7", "8", "9",
               "a", "b", "c", "d", "e", "f">>
UpperHex == <<"A", "B", "C", "D", "E", "F">>
Letters == {"g", "h", "i", "j", "k", "l", "m", "n", "o", "p", "q", "r", "s", "t",
            "u", "v", "w", "x", "y", "z"}

RECURSIVE Pow(_, _)
Pow(b, e) == IF e = 0 THEN 1 ELSE b * Pow(b, e - 1)

\* printf ("%.<w>x", n)
HexOf(n, w) == [i \in 1..w |-> HexDigits[((n \div Pow(16, w - i)) % 16) + 1]]

IsHexDigit(ch) ==
  \/ \E i \in 1..16 : HexDigits[i] = ch
  \/ \E i \in 1..6 : UpperHex[i] = ch
HexVal(ch) ==
  IF \E i \in 1..16 : HexDigits[i] = ch
  THEN (CHOOSE i \in 1..16 : HexDigits[i] = ch) - 1
  ELSE (CHOOSE i \in 1..6 : UpperHex[i] = ch) + 9
\* isalnum
IsAlnum(ch) == IsHexDigit(ch) \/ ch \in Letters

\* An integer field wider than a byte is held as the base-256 digits of its
\* value, most significant first.  The value the field has when memcpy stores
\* the bytes bs over it: on a little-endian host the first byte in memory is
\* the least significant digit.
FromBytes(bs, little) ==
  IF little THEN [i \in 1..Len(bs) |-> bs[Len(bs) + 1 - i]] ELSE bs

\* printf ("%.<2n>x", v) of an n-byte value
HexOfValue(v) ==
  LET F[i \in 0..Len(v)] == IF i = 0 THEN <<>> ELSE F[i - 1] \o HexOf(v[i], 2)
  IN F[Len(v)]

Sub(s, a, b) == [i \in 1..(b - a + 1) |-> s[a + i - 1]]

\* The 16 raw bytes laid over the fields of a TSS_UUID, as randomize_uuid and
\* decode_tpmkey_url do it.
UuidFromRaw(raw, little) ==
  [ulTimeLow |-> FromBytes(Sub(raw, 1, 4), little),
   usTimeMid |-> FromBytes(Sub(raw, 5, 6), little),
   usTimeHigh |-> FromBytes(Sub(raw, 7, 8), little),
   bClockSeqHigh |-> raw[9],
   bClockSeqLow |-> raw[10],
   rgbNode |-> Sub(raw, 11, 16)]

randomize_uuid(raw, little) == UuidFromRaw(raw, little)

Dash == <<"-">>
SchemePrefix == <<"t", "p", "m", "k", "e", "y", ":">>
FileKey == <<"f", "i", "l", "e", "=">>
UuidKey == <<"u", "u", "i", "d", "=">>

encode_tpmkey_url(uuid) ==
  SchemePrefix \o UuidKey
  \o HexOfValue(uuid.ulTimeLow) \o Dash
  \o HexOfValue(uuid.usTimeMid) \o Dash
  \o HexOfValue(uuid.usTimeHigh) \o Dash
  \o HexOf(uuid.bClockSeqHigh, 2) \o HexOf(uuid.bClockSeqLow, 2) \o Dash
  \o HexOf(uuid.rgbNode[1], 2) \o HexOf(uuid.rgbNode[2], 2)
  \o HexOf(uuid.rgbNode[3], 2) \o HexOf(uuid.rgbNode[4], 2)
  \o HexOf(uuid.rgbNode[5], 2) \o HexOf(uuid.rgbNode[6], 2)

\* strstr (s, key): the index of the first occurrence of key in s, 0 if none.
StrStr(s, key) ==
  LET hits == {i \in 1..Len(s) : i + Len(key) - 1 <= Len(s)
                                  /\ Sub(s, i, i + Len(key) - 1) = key}
  IN IF hits = {} THEN 0 ELSE CHOOSE i \in hits : \A j \in hits : i <= j

\* The part of s from index i on.
Tail_(s, i) == Sub(s, i, Len(s))

\* The copying loop without the test j == sizeof (tmp_uuid) - 1: every
\* alphanumeric character of p is collected.
RECURSIVE CollectFrom_without_cap(_, _, _)
CollectFrom_without_cap(p, i, acc) ==
  IF i > Len(p) THEN acc
  ELSE CollectFrom_without_cap(p, i + 1,
                               IF IsAlnum(p[i]) THEN Append(acc, p[i]) ELSE acc)

\* The loop of decode_tpmkey_url that copies the alphanumeric characters of p
\* into tmp_uuid[33]: from index i on, with acc copied so far.
RECURSIVE CollectFrom(_, _, _)
CollectFrom(p, i, acc) ==
  IF i > Len(p) \/ Len(acc) = 2 * UUID_SIZE THEN acc
  ELSE CollectFrom(p, i + 1, IF IsAlnum(p[i]) THEN Append(acc, p[i]) ELSE acc)

CollectAlnum(p) == CollectFrom(p, 1, <<>>)

\* _gnutls_hex2bin (hex, len, bin, &size): hex-decodes into size bytes, and
\* fails on a wrong length or a bad digit.
hex2bin(hex, size) ==
  IF Len(hex) = 2 * size /\ \A i \in 1..Len(hex) : IsHexDigit(hex[i])
  THEN [ok |-> TRUE,
        bin |-> [i \in 1..size |-> 16 * HexVal(hex[2 * i - 1]) + HexVal(hex[2 * i])]]
  ELSE [ok |-> FALSE, bin |-> <<>>]

\* _gnutls_buffer_unescape: the escape characters removed.
buffer_unescape(body) ==
  LET F[i \in 0..Len(body)] ==
        IF i = 0 THEN <<>>
        ELSE IF body[i] = "\\" /\ (i = 1 \/ body[i - 1] # "\\") THEN F[i - 1]
        ELSE Append(F[i - 1], body[i])
  IN F[Len(body)]

\* The terminating zero byte of a C string, as a buffer holds it.
NUL == "NUL"

\* _gnutls_buffer_pop_data (&str, output, &size): copies the first bytes of
\* the buffer to output, at most size of them.
buffer_pop_data(str, size) ==
  [i \in 1..(IF size < Len(str) THEN size ELSE Len(str)) |-> str[i]]

\* unescape_string (output, input, &size, ';'): the bytes it stores at output.
\* The input up to the terminator is unescaped, a zero byte is appended, and
\* at most size bytes of the result are popped into output.
unescape_string(input, size) ==
  LET t == StrStr(input, <<";">>)
      body == IF t = 0 THEN input ELSE Sub(input, 1, t - 1)
  IN buffer_pop_data(Append(buffer_unescape(body), NUL), size)

ZeroUuid == [ulTimeLow |-> <<0, 0, 0, 0>>, usTimeMid |-> <<0, 0>>,
             usTimeHigh |-> <<0, 0>>, bClockSeqHigh |-> 0,
             bClockSeqLow |-> 0, rgbNode |-> <<0, 0, 0, 0, 0, 0>>]
\* struct tpmkey_url_st after memset (s, 0, sizeof (*s)).  filename_set says
\* that the filename pointer is not NULL, filename holds the bytes stored in
\* the buffer it points to and filename_cap the size the buffer was
\* allocated with; written is history: whether decode_tpmkey_url has stored
\* into the struct.
ZeroUrl == [written |-> TRUE, filename_set |-> FALSE, filename |-> <<>>,
            filename_cap |-> 0, uuid |-> ZeroUuid, uuid_set |-> FALSE]
UninitUrl == [ZeroUrl EXCEPT !.written = FALSE]

\* decode_tpmkey_url with the uuid= test made a second `if' instead of an
\* `else if': a string holding both keys yields both.
decode_tpmkey_url_both_keys(url, s, little, mallocOk) ==
  IF StrStr(url, SchemePrefix) = 0
  THEN [ret |-> "GNUTLS_E_PARSING_ERROR", s |-> s]
  ELSE IF StrStr(url, FileKey) = 0 /\ StrStr(url, UuidKey) = 0
  THEN [ret |-> "GNUTLS_E_PARSING_ERROR", s |-> ZeroUrl]
  ELSE IF StrStr(url, FileKey) # 0 /\ ~mallocOk
  THEN [ret |-> "GNUTLS_E_MEMORY_ERROR", s |-> ZeroUrl]
  ELSE LET pf == Tail_(url, StrStr(url, FileKey) + Len(FileKey))
           s1 == IF StrStr(url, FileKey) # 0
                 THEN [ZeroUrl EXCEPT !.filename_set = TRUE,
                                      !.filename_cap = Len(pf),
                                      !.filename = unescape_string(pf, Len(pf))]
                 ELSE ZeroUrl
           pu == Tail_(url, StrStr(url, UuidKey) + Len(UuidKey))
           h == hex2bin(CollectAlnum(pu), UUID_SIZE)
       IN IF StrStr(url, UuidKey) = 0
          THEN [ret |-> E_SUCCESS, s |-> s1]
          ELSE IF h.ok
          THEN [ret |-> E_SUCCESS,
                s |-> [s1 EXCEPT !.uuid = UuidFromRaw(h.bin, little),
                                 !.uuid_set = TRUE]]
          ELSE [ret |-> "GNUTLS_E_PARSING_ERROR", s |-> ZeroUrl]

\* decode_tpmkey_url without the test for the scheme prefix: the keys are
\* looked for in any string.
decode_tpmkey_url_any_scheme(url, s, little, mallocOk) ==
  IF StrStr(url, FileKey) # 0
  THEN LET p == Tail_(url, StrStr(url, FileKey) + Len(FileKey))
       IN IF mallocOk
          THEN [ret |-> E_SUCCESS,
                s |-> [ZeroUrl EXCEPT !.filename_set = TRUE,
                                      !.filename_cap = Len(p),
                                      !.filename = unescape_string(p, Len(p))]]
          ELSE [ret |-> "GNUTLS_E_MEMORY_ERROR", s |-> ZeroUrl]
  ELSE IF StrStr(url, UuidKey) # 0
  THEN LET p == Tail_(url, StrStr(url, UuidKey) + Len(UuidKey))
           h == hex2bin(CollectAlnum(p), UUID_SIZE)
       IN IF h.ok
          THEN [ret |-> E_SUCCESS,
                s |-> [ZeroUrl EXCEPT !.uuid = UuidFromRaw(h.bin, little),
                                      !.uuid_set = TRUE]]
          ELSE [ret |-> "GNUTLS_E_PARSING_ERROR", s |-> ZeroUrl]
  ELSE [ret |-> "GNUTLS_E_PARSING_ERROR", s |-> ZeroUrl]

\* decode_tpmkey_url (url, s): [ret, s].  mallocOk is whether gnutls_malloc
\* returns a buffer for the filename.
decode_tpmkey_url(url, s, little, mallocOk) ==
  IF StrStr(url, SchemePrefix) = 0
  THEN [ret |-> "GNUTLS_E_PARSING_ERROR", s |-> s]
  ELSE IF StrStr(url, FileKey) # 0
  THEN LET p == Tail_(url, StrStr(url, FileKey) + Len(FileKey))
       IN IF mallocOk
          THEN [ret |-> E_SUCCESS,
                s |-> [ZeroUrl EXCEPT !.filename_set = TRUE,
                                      !.filename_cap = Len(p),
                                      !.filename = unescape_string(p, Len(p))]]
          ELSE [ret |-> "GNUTLS_E_MEMORY_ERROR", s |-> ZeroUrl]
  ELSE IF StrStr(url, UuidKey) # 0
  THEN LET p == Tail_(url, StrStr(url, UuidKey) + Len(UuidKey))
           h == hex2bin(CollectAlnum(p), UUID_SIZE)
       IN IF h.ok
          THEN [ret |-> E_SUCCESS,
                s |-> [ZeroUrl EXCEPT !.uuid = UuidFromRaw(h.bin, little),
                                      !.uuid_set = TRUE]]
          ELSE [ret |-> "GNUTLS_E_PARSING_ERROR", s |-> ZeroUrl]
  ELSE [ret |-> "GNUTLS_E_PARSING_ERROR", s |-> ZeroUrl]

(***************************************************************************)
(* The codec applied to bounded inputs.                                    *)
(***************************************************************************)
\* UUIDs handed to encode_tpmkey_url: field values with distinct bytes, the
\* extremes, and values with leading zero digits.
TestUuids ==
  [ulTimeLow : {<<0, 0, 0, 0>>, <<0, 0, 0, 1>>, <<1, 2, 3, 4>>, <<255, 255, 255, 255>>},
   usTimeMid : {<<0, 0>>, <<171, 205>>, <<255, 255>>},
   usTimeHigh : {<<0, 0>>, <<18, 52>>},
   bClockSeqHigh : {0, 255},
   bClockSeqLow : {10},
   rgbNode : {<<0, 0, 0, 0, 0, 0>>, <<1, 35, 69, 103, 137, 171>>}]

\* Thirty-two hexadecimal digits.
Hex32 == HexOfValue(<<1, 35, 69, 103, 137, 171, 205, 239, 16, 50, 84, 118, 152, 186, 220, 254>>)

\* Other strings handed to decode_tpmkey_url: without the scheme, without a
\* key, file= with and without terminator and escapes, file= together with
\* uuid=, and uuid= followed by too few, bad, exactly enough and too many
\* digits.
TestStrings ==
  {<<"n", "o", "t", "-", "a", "-", "u", "r", "l">>,
   FileKey \o <<"/", "x">>,
   UuidKey \o Hex32,
   SchemePrefix,
   SchemePrefix \o <<"x", "=", "1">>,
   SchemePrefix \o FileKey \o <<"/", "a">>,
   SchemePrefix \o FileKey \o <<"/", "a", ";", "x">>,
   SchemePrefix \o FileKey \o <<"/", "\\", "a">>,
   SchemePrefix \o FileKey \o <<"/", "a", "\\", ";", "b">>,
   SchemePrefix \o FileKey \o <<"k", ";">> \o UuidKey \o <<"0", "0">>,
   SchemePrefix \o FileKey \o <<"k", ";">> \o UuidKey \o Hex32,
   SchemePrefix \o UuidKey \o <<"z", "z">>,
   SchemePrefix \o UuidKey \o <<"0", "1", "2", "3">>,
   SchemePrefix \o UuidKey \o Sub(Hex32, 1, 31) \o <<"g">>,
   SchemePrefix \o UuidKey \o Sub(Hex32, 1, 16) \o <<":", " ">> \o Sub(Hex32, 17, 32),
   SchemePrefix \o UuidKey \o Hex32 \o <<"a", "b">>,
   SchemePrefix \o UuidKey \o Hex32 \o <<";", "z">>}

UrlFrame == UNCHANGED <<chipVars, env, sizeVars, concVars>>

UrlEncode ==
  /\ uPc = "start"
  /\ uHost' \in {"little", "big"}
  /\ \E u \in TestUuids :
       /\ uIn' = u
       /\ uStr' = encode_tpmkey_url(u)
  /\ uPc' = "encoded"
  /\ UNCHANGED <<uOut, uRet>>
  /\ UrlFrame

UrlPick ==
  /\ uPc = "start"
  /\ uHost' \in {"little", "big"}
  /\ \E str \in TestStrings : uStr' = str
  /\ uPc' = "picked"
  /\ UNCHANGED <<uIn, uOut, uRet>>
  /\ UrlFrame

UrlDecode ==
  /\ uPc \in {"encoded", "picked"}
  /\ \E mallocOk \in BOOLEAN :
       LET d == decode_tpmkey_url(uStr, uOut, uHost = "little", mallocOk)
       IN /\ uOut' = d.s
          /\ uRet' = d.ret
  /\ uPc' = IF uPc = "encoded" THEN "roundtrip" ELSE "decoded"
  /\ UNCHANGED <<uHost, uIn, uStr>>
  /\ UrlFrame

(***************************************************************************)
(* Key flags of gnutls_tpm_privkey_generate.                               *)
(***************************************************************************)
\* Largest bit size requested.
MaxBits == 20000

\* The TSS_KEY_SIZE_* flags, held as the key size in bits they stand for.
TSS_KEY_SIZE_512 == 512
TSS_KEY_SIZE_1024 == 1024
TSS_KEY_SIZE_2048 == 2048
TSS_KEY_SIZE_4096 == 4096
TSS_KEY_SIZE_8192 == 8192
TSS_KEY_SIZE_16384 == 16384

\* The if chain on bits with < in place of <=.
KeySizeFlag_strict(b) ==
  IF b < 512 THEN TSS_KEY_SIZE_512
  ELSE IF b < 1024 THEN TSS_KEY_SIZE_1024
  ELSE IF b < 2048 THEN TSS_KEY_SIZE_2048
  ELSE IF b < 4096 THEN TSS_KEY_SIZE_4096
  ELSE IF b < 8192 THEN TSS_KEY_SIZE_8192
  ELSE TSS_KEY_SIZE_16384

\* The if chain on bits: the size flag or'ed into tpm_flags.
KeySizeFlag(b) ==
  IF b <= 512 THEN TSS_KEY_SIZE_512
  ELSE IF b <= 1024 THEN TSS_KEY_SIZE_1024
  ELSE IF b <= 2048 THEN TSS_KEY_SIZE_2048
  ELSE IF b <= 4096 THEN TSS_KEY_SIZE_4096
  ELSE IF b <= 8192 THEN TSS_KEY_SIZE_8192
  ELSE TSS_KEY_SIZE_16384

\* The application calls gnutls_tpm_privkey_generate with some bits and flags.
KsCall ==
  /\ kPc = "start"
  /\ bits' \in 0..MaxBits
  /\ flags' \in {{}, {"GNUTLS_TPM_KEY_SIGNING"}}
  /\ kPc' = "called"
  /\ UNCHANGED <<tpm_flags, chipVars, urlVars, concVars, env>>

\* tpm_flags as it is when tpm_open_session is called.
KsFlags ==
  /\ kPc = "called"
  /\ tpm_flags' = [volatile |-> TRUE,
                   type |-> IF "GNUTLS_TPM_KEY_SIGNING" \in flags
                            THEN "TSS_KEY_TYPE_SIGNING" ELSE "TSS_KEY_TYPE_LEGACY",
                   size |-> {KeySizeFlag(bits)}]
  /\ kPc' = "flagged"
  /\ UNCHANGED <<bits, flags, chipVars, urlVars, concVars, env>>

(***************************************************************************)
(* Concurrent callers.  Each thread imports a private key from a blob,     *)
(* signs with it and destroys it; the threads share the process heap and   *)
(* the TSS daemon.  A step is one segment of import_tpm_key, tpm_sign_fn   *)
(* or tpm_deinit_fn between two points where another thread can run.       *)
(***************************************************************************)
Threads == {1, 2}
Blocks == {"b1", "b2"}

\* The close calls of log clog that closed something, as made by thread t.
Touched(t, clog) ==
  {[by |-> t, call |-> clog[i].call, h |-> clog[i].h] :
     i \in {j \in 1..Len(clog) : clog[j].live}}

\* free(s) of block b.
FreeBlock(mm, b, s) == [mm EXCEPT ![b] = [state |-> "free", s |-> s]]

CcFrame == UNCHANGED <<chipVars, urlVars, sizeVars, env>>

\* s = gnutls_malloc(sizeof(*s)): any block that is not allocated, with the
\* contents its last user left in it.
CcMalloc(t) ==
  /\ tPc[t] = "start"
  /\ \E b \in {x \in Blocks : mem[x].state # "alloc"} :
       /\ mem' = [mem EXCEPT ![b].state = "alloc"]
       /\ tS' = [tS EXCEPT ![t] = b]
  /\ tPc' = [tPc EXCEPT ![t] = "open"]
  /\ UNCHANGED <<tKey, dChip, touch>>
  /\ CcFrame

\* tpm_open_session(s, srk_password); on failure out_ctx frees s.
CcOpenSession(t) ==
  /\ tPc[t] = "open"
  /\ \E r \in {OK, "TSS_E_FAIL"} :
       IF r = OK
       THEN /\ mem' = [mem EXCEPT ![tS[t]].s.tpm_ctx = Handle(t, "ctx"),
                                  ![tS[t]].s.srk = Handle(t, "srk"),
                                  ![tS[t]].s.srk_policy = Handle(t, "srkpol")]
            /\ dChip' = NewObject(NewObject(NewObject(dChip, Handle(t, "ctx")),
                                            Handle(t, "srk")), Handle(t, "srkpol"))
            /\ tPc' = [tPc EXCEPT ![t] = "load"]
       ELSE /\ mem' = FreeBlock(mem, tS[t], mem[tS[t]].s)
            /\ tPc' = [tPc EXCEPT ![t] = "returned"]
            /\ UNCHANGED dChip
  /\ UNCHANGED <<tS, tKey, touch>>
  /\ CcFrame

\* Tspi_Context_LoadKeyByBlob; on failure out_blob closes the session and
\* frees s.
CcLoadBlob(t) ==
  /\ tPc[t] = "load"
  /\ \E r \in {OK, "TSS_E_FAIL"} :
       IF r = OK
       THEN /\ mem' = [mem EXCEPT ![tS[t]].s.tpm_key = Handle(t, "key")]
            /\ dChip' = NewObject(dChip, Handle(t, "key"))
            /\ tPc' = [tPc EXCEPT ![t] = "register"]
            /\ UNCHANGED touch
       ELSE LET w == IkUnwind("out_blob", mem[tS[t]].s, [chip |-> dChip, clog |-> <<>>])
            IN /\ mem' = FreeBlock(mem, tS[t], w.s)
               /\ dChip' = w.m.chip
               /\ touch' = touch \cup Touched(t, w.m.clog)
               /\ tPc' = [tPc EXCEPT ![t] = "returned"]
  /\ UNCHANGED <<tS, tKey>>
  /\ CcFrame

\* gnutls_privkey_import_ext2(pkey, GNUTLS_PK_RSA, s, tpm_sign_fn, NULL,
\* tpm_deinit_fn, 0)
CcRegister(t) ==
  /\ tPc[t] = "register"
  /\ tKey' = [tKey EXCEPT ![t] = [state |-> "registered", s |-> tS[t]]]
  /\ tPc' = [tPc EXCEPT ![t] = "trial"]
  /\ UNCHANGED <<tS, mem, dChip, touch>>
  /\ CcFrame

\* The trial sign; on a failure other than missing credentials out_blob
\* closes the session and frees s, and pkey keeps s.
CcTrialSign(t) ==
  /\ tPc[t] = "trial"
  /\ \E r \in {OK, "TSS_E_FAIL"} :
       IF r = OK
       THEN /\ tPc' = [tPc EXCEPT ![t] = "imported"]
            /\ UNCHANGED <<mem, dChip, touch>>
       ELSE LET w == IkUnwind("out_blob", mem[tS[t]].s, [chip |-> dChip, clog |-> <<>>])
            IN /\ mem' = FreeBlock(mem, tS[t], w.s)
               /\ dChip' = w.m.chip
               /\ touch' = touch \cup Touched(t, w.m.clog)
               /\ tPc' = [tPc EXCEPT ![t] = "failed"]
  /\ UNCHANGED <<tS, tKey>>
  /\ CcFrame

\* tpm_sign_fn(pkey, s, data, sig) on the imported key: Tspi_Hash_Sign with
\* s->tpm_key.
CcSign(t) ==
  /\ tPc[t] = "imported"
  /\ mem[tKey[t].s].s.tpm_key \in dChip.live
  /\ touch' = touch \cup {[by |-> t, call |-> "Hash_Sign", h |-> mem[tKey[t].s].s.tpm_key]}
  /\ tPc' = [tPc EXCEPT ![t] = "signed"]
  /\ UNCHANGED <<tS, tKey, mem, dChip>>
  /\ CcFrame

\* gnutls_privkey_deinit(pkey): tpm_deinit_fn(pkey, s) on the block pkey was
\* registered with.  After a failed import that block is freed memory: the
\* callback crashes, or acts on whatever the block holds now.
CcDeinit(t) ==
  /\ tPc[t] \in {"imported", "signed", "failed"}
  /\ LET b == tKey[t].s
         d == tpm_deinit_fn(mem[b].s, [chip |-> dChip, clog |-> <<>>])
     IN \/ /\ mem' = FreeBlock(mem, b, d.s)
           /\ dChip' = d.m.chip
           /\ touch' = touch \cup Touched(t, d.m.clog)
           /\ tKey' = [tKey EXCEPT ![t].state = "destroyed"]
           /\ tPc' = [tPc EXCEPT ![t] = "destroyed"]
        \/ /\ tPc[t] = "failed"
           /\ tPc' = [tPc EXCEPT ![t] = "crashed"]
           /\ UNCHANGED <<mem, dChip, touch, tKey>>
  /\ UNCHANGED tS
  /\ CcFrame

NextConcurrent ==
  \E t \in Threads :
    \/ CcMalloc(t) \/ CcOpenSession(t) \/ CcLoadBlob(t) \/ CcRegister(t)
    \/ CcTrialSign(t) \/ CcSign(t) \/ CcDeinit(t)

(***************************************************************************)
(* Specifications.                                                         *)
(***************************************************************************)
Init ==
  /\ pc = "idle"
  /\ op = "none"
  /\ cur = "stack"
  /\ st = [x \in {"heap", "stack"} |-> UninitStruct]
  /\ heap = "none"
  /\ chip = [live |-> {}, secret |-> <<>>, keypol |-> <<>>, store |-> {"U0"}]
  /\ openLog = <<>>
  /\ closeLog = <<>>
  /\ pkey = [state |-> "fresh", usable |-> FALSE]
  /\ args = [fdata |-> "none", uuid |-> "none", srk_password |-> NULLP,
             key_password |-> NULLP, register |-> FALSE, format |-> "PEM"]
  /\ ret = "none"
  /\ fail = NoFail
  /\ ub = {}
  /\ nOps = 0
  /\ hash = Junk
  /\ loc = InitLoc
  /\ sret = "none"
  /\ ptr = InitPtr
  /\ hostHeap = [b \in Buffers |-> "none"]
  /\ env \in [srkAuth : {nullpass, SHA1("srkpw")},
              keyAuth : {"none", SHA1("keypw")}]
  /\ uHost = "unknown"
  /\ uPc = "start"
  /\ uIn = ZeroUuid
  /\ uStr = <<>>
  /\ uOut = UninitUrl
  /\ uRet = "none"
  /\ kPc = "start"
  /\ bits = 0
  /\ flags = {}
  /\ tpm_flags = {}
  /\ tPc = [t \in Threads |-> "start"]
  /\ tS = [t \in Threads |-> "none"]
  /\ tKey = [t \in Threads |-> [state |-> "fresh", s |-> "none"]]
  /\ mem = [b \in Blocks |-> [state |-> "none", s |-> UninitStruct]]
  /\ dChip = [live |-> {}, secret |-> <<>>, keypol |-> <<>>, store |-> {"U0"}]
  /\ touch = {}

Next ==
  \/ CallImportPub \/ IpDecode \/ IpLoadBlob \/ IpLoadUuid \/ IpNoSource
  \/ OsCreate \/ OsConnect \/ OsLoadSrk \/ OsGetPolicy \/ OsSetSecret
  \/ RpModulus \/ RpExponent \/ RpImport
  \/ CallGenerate \/ GCreateObject \/ GSetAttrib \/ GGetPolicy \/ GSetSecret
  \/ GCreateKey \/ GRandomizeUuid \/ GRegisterKey \/ GEncodeUrl \/ GGetBlob
  \/ GEncodeOctetString \/ GFormat \/ GPubkeyInit \/ GMalloc \/ GExport
  \/ CallImportPriv \/ IkMalloc \/ IkDecode \/ IkLoadBlob \/ IkLoadUuid \/ IkNoSource
  \/ IkRegister \/ IkTrialSign \/ IkCreatePolicy \/ IkAssignPolicy \/ IkSetSecret
  \/ CallSign \/ SgCreateHash \/ SgSetHashValue \/ SgHashSign
  \/ DestroyKey

Spec == Init /\ [][Next]_vars

NextUrl == UrlEncode \/ UrlPick \/ UrlDecode

SpecUrl == Init /\ [][NextUrl]_vars

NextSession ==
  \/ CallOpenSession
  \/ OsCreate \/ OsConnect \/ OsLoadSrk \/ OsGetPolicy \/ OsSetSecret
  \/ CloseSession \/ EndSession

SpecSession == Init /\ [][NextSession]_vars

NextKeySize == KsCall \/ KsFlags

SpecKeySize == Init /\ [][NextKeySize]_vars

SpecConcurrent == Init /\ [][NextConcurrent]_vars

(***************************************************************************)
(* Properties.                                                             *)
(***************************************************************************)

\* C1: for every UUID u, decode_tpmkey_url applied to encode_tpmkey_url(u)
\* succeeds with uuid_set true and yields a UUID whose every field equals the
\* corresponding field of u.
C1_RoundTrip ==
  uPc = "roundtrip" =>
    /\ uRet = E_SUCCESS
    /\ uOut.uuid_set
    /\ uOut.uuid = uIn

\* C2: the Signing Delegate state registered with the abstract key is released
\* exactly once, by the deinit callback when the key object is destroyed: it
\* is still allocated while the key object holds it, and destroying the key
\* neither uses nor frees memory that was already freed.
C2_ReleasedOnceByDeinit ==
  /\ (pc = "idle" /\ pkey.state = "registered") => heap = "alloc"
  /\ op = "deinit" => ub \cap {"use_after_free", "double_free"} = {}

\* C3 (as amended): a sign call whose Tspi_Hash_Sign fails returns
\* GNUTLS_E_INSUFFICIENT_CREDENTIALS when the chip rejected it with an
\* authorisation failure, whether or not a key policy exists for the key, and
\* GNUTLS_E_PK_SIGN_FAILED for every other native code.
C3_AuthFailureIsInsufficientCredentials ==
  (op = "sign" /\ pc = "idle" /\ fail.step = "Tspi_Hash_Sign") =>
    ret = IF fail.code = "TPM_E_AUTHFAIL"
          THEN "GNUTLS_E_INSUFFICIENT_CREDENTIALS"
          ELSE "GNUTLS_E_PK_SIGN_FAILED"

\* C3 witness: a key policy exists for the key and its secret has been set,
\* the chip rejected the sign call with an authorisation failure, and the
\* call returned.
C3_Witness ==
  /\ op = "sign"
  /\ pc = "idle"
  /\ fail = [step |-> "Tspi_Hash_Sign", code |-> "TPM_E_AUTHFAIL"]
  /\ st["heap"].tpm_key_policy \in chip.live
  /\ st["heap"].tpm_key_policy \in DOMAIN chip.secret
  /\ ret = "GNUTLS_E_INSUFFICIENT_CREDENTIALS"

\* C3 as stated: once a key policy exists and its secret has been set, a sign
\* call the chip rejects with an authorisation failure returns
\* GNUTLS_E_PK_SIGN_FAILED.
C3_Original ==
  (/\ op = "sign"
   /\ pc = "idle"
   /\ fail = [step |-> "Tspi_Hash_Sign", code |-> "TPM_E_AUTHFAIL"]
   /\ st["heap"].tpm_key_policy \in chip.live
   /\ st["heap"].tpm_key_policy \in DOMAIN chip.secret)
  => ret = "GNUTLS_E_PK_SIGN_FAILED"

\* C4: private-key import of a key that requires a per-key password, called
\* with a wrong or NULL key password, returns GNUTLS_E_TPM_KEY_PASSWORD_ERROR
\* (here: whenever the chip rejected the trial sign for authorisation and no
\* other call of the import failed).
C4_KeyPasswordErrorReported ==
  (/\ op = "import_tpm_key"
   /\ pc = "idle"
   /\ env.keyAuth # "none"
   /\ args.key_password \in {NULLP, "wrong"}
   /\ sret = "GNUTLS_E_INSUFFICIENT_CREDENTIALS"
   /\ fail = NoFail)
  => ret = "GNUTLS_E_TPM_KEY_PASSWORD_ERROR"

\* C5: when tpm_open_session fails at one of its steps, every handle opened
\* before the failing step has been closed, in the order SRK policy, SRK,
\* context, nothing is closed that was not opened, and the value returned is
\* the Error Mapper's image of the failing native code.
C5_OpenSessionRollback ==
  (/\ pc = "idle"
   /\ fail.step \in {"Tspi_Context_Create", "Tspi_Context_Connect",
                     "Tspi_Context_LoadKeyByUUID(SRK)", "Tspi_GetPolicyObject(SRK)",
                     "Tspi_Policy_SetSecret(SRK)"})
  => /\ Len(closeLog) = Len(openLog)
     /\ \A i \in 1..Len(closeLog) :
          /\ closeLog[i].h = openLog[Len(openLog) + 1 - i]
          /\ closeLog[i].live
          /\ closeLog[i].h[2] = <<"srkpol", "srk", "ctx">>[i + 3 - Len(closeLog)]
     /\ \A h \in chip.live : h[1] # nOps
     /\ ret = IF fail.code \in {"TSS_E_COMM_FAILURE", "TSS_E_NO_CONNECTION",
                                "TSS_E_CONNECTION_FAILED", "TSS_E_CONNECTION_BROKEN"}
              THEN "GNUTLS_E_TPM_SESSION_ERROR"
              ELSE IF fail.code = "TPM_E_AUTHFAIL"
              THEN "GNUTLS_E_TPM_SRK_PASSWORD_ERROR"
              ELSE "GNUTLS_E_TPM_ERROR"

\* C5 witness: the last step of tpm_open_session failed with an authorisation
\* failure after all three handles were opened, and all three were closed.
C5_Witness ==
  /\ pc = "idle"
  /\ fail = [step |-> "Tspi_Policy_SetSecret(SRK)", code |-> "TPM_E_AUTHFAIL"]
  /\ Len(openLog) = 3
  /\ Len(closeLog) = 3
  /\ ret = "GNUTLS_E_TPM_SRK_PASSWORD_ERROR"

\* C6: after a successful tpm_open_session, tpm_close_session closes SRK
\* policy, SRK and context in that order and leaves the three handle fields
\* zero; a second tpm_close_session leaves the fields zero and closes no live
\* handle.
C6_CloseSessionIdempotent ==
  /\ pc \in {"sess_closed", "sess_closed_twice"} =>
       /\ Len(closeLog) >= 3
       /\ \A i \in 1..3 :
            /\ closeLog[i].h = openLog[4 - i]
            /\ closeLog[i].h[2] = <<"srkpol", "srk", "ctx">>[i]
            /\ closeLog[i].live
       /\ S.srk_policy = Null /\ S.srk = Null /\ S.tpm_ctx = Null
       /\ \A h \in chip.live : h[1] # nOps
  /\ pc = "sess_closed" => Len(closeLog) = 3
  /\ pc = "sess_closed_twice" =>
       /\ Len(closeLog) = 6
       /\ \A i \in 4..6 : ~closeLog[i].live /\ closeLog[i].h = Null

\* C6 witness: tpm_close_session has run twice on a session that was opened.
C6_Witness ==
  /\ pc = "sess_closed_twice"
  /\ Len(openLog) = 3
  /\ Len(closeLog) = 6

\* C7: whatever the outcome of tpm_sign_fn's chip calls, a hash object it
\* created has been closed exactly once when the call returns, and no hash
\* object is open outside a sign call.
C7_HashClosedOnce ==
  pc \notin {"sg_sethash", "sg_sign"} =>
    /\ \A h \in chip.live : h[2] # "hash"
    /\ \A i \in 1..Len(openLog) :
         openLog[i][2] = "hash" =>
           /\ Cardinality({j \in 1..Len(closeLog) : closeLog[j].h = openLog[i]}) = 1
           /\ \A j \in 1..Len(closeLog) : closeLog[j].h = openLog[i] => closeLog[j].live

\* C7 witness: a sign call has returned after Tspi_Hash_SetHashValue failed on
\* the hash object the call had created.
C7_Witness ==
  /\ op = "sign"
  /\ pc = "idle"
  /\ fail.step = "Tspi_Hash_SetHashValue"
  /\ \E i \in 1..Len(openLog) : openLog[i][2] = "hash"
  /\ \E j \in 1..Len(closeLog) : closeLog[j].h[2] = "hash"

\* C8: on every failing return of import_tpm_key after the key handle was
\* loaded, the key handle and any created key policy are explicitly closed
\* before the session is closed.
C8_KeyClosedBeforeSession ==
  (/\ op = "import_tpm_key"
   /\ pc = "idle"
   /\ ret \notin {E_SUCCESS, "pending"})
  => \A i \in 1..Len(openLog) :
       openLog[i][2] \in {"key", "keypol"} =>
         \E j, k \in 1..Len(closeLog) :
           /\ j < k
           /\ closeLog[j].call = "CloseObject"
           /\ closeLog[j].h = openLog[i]
           /\ closeLog[k].h[2] = "srkpol"

\* C9: on every return of import_tpm_pubkey the key handle it loaded is
\* closed, and then SRK policy, SRK and context are closed.
C9_PubkeyKeyHandleClosed ==
  (op = "import_tpm_pubkey" /\ pc = "idle") =>
    \A i \in 1..Len(openLog) :
      openLog[i][2] = "key" =>
        \E j, k \in 1..Len(closeLog) :
          /\ j < k
          /\ closeLog[j].call = "CloseObject"
          /\ closeLog[j].h = openLog[i]
          /\ closeLog[k].h[2] = "srkpol"

\* C10: when gnutls_tpm_privkey_generate, called with the register flag, fails
\* after the key was registered under the fresh UUID, it has attempted to
\* unregister that UUID before it returns the error.
C10_UnregisterOnFailure ==
  (/\ op = "generate"
   /\ pc = "idle"
   /\ args.register
   /\ loc.reg
   /\ ret # E_SUCCESS)
  => loc.unreg

\* C11: on every failing return of gnutls_tpm_privkey_generate no buffer
\* allocated for the private-key output or for the public-key output remains
\* allocated.
C11_OutputBuffersFreedOnFailure ==
  (op = "generate" /\ pc = "idle" /\ ret # E_SUCCESS) =>
    \A b \in {"B_url", "B_pem", "B_tmpkey", "B_pubkey"} : hostHeap[b] # "alloc"


\* Whether the characters of key occur consecutively somewhere in s.
Occurs(key, s) ==
  \E i \in 1..(Len(s) - Len(key) + 1) : SubSeq(s, i, i + Len(key) - 1) = key

\* C12: after every successful decode_tpmkey_url exactly one of the two holds:
\* the filename is set or uuid_set is true, never both and never neither, also
\* for a string that contains both file= and uuid=.
C12_ExactlyOneOfFilenameUuid ==
  (uPc \in {"decoded", "roundtrip"} /\ uRet = E_SUCCESS) =>
    (uOut.filename_set # uOut.uuid_set)

\* A string holding file= and a well-formed uuid= was decoded successfully.
C12_Witness ==
  /\ uPc = "decoded"
  /\ uRet = E_SUCCESS
  /\ Occurs(FileKey, uStr)
  /\ Occurs(UuidKey \o Hex32, uStr)

\* The string decoded is a uuid= locator: it holds the scheme, not file=, and
\* uuid=.
IsUuidLocator ==
  /\ uPc \in {"decoded", "roundtrip"}
  /\ Occurs(SchemePrefix, uStr)
  /\ ~Occurs(FileKey, uStr)
  /\ Occurs(UuidKey, uStr)

\* The alphanumeric characters that follow the first uuid= of the string.
AlnumAfterUuidKey ==
  LET first == CHOOSE i \in 1..Len(uStr) :
                 /\ SubSeq(uStr, i, i + Len(UuidKey) - 1) = UuidKey
                 /\ \A k \in 1..(i - 1) : SubSeq(uStr, k, k + Len(UuidKey) - 1) # UuidKey
  IN SelectSeq(SubSeq(uStr, first + Len(UuidKey), Len(uStr)), IsAlnum)

\* C13 (as amended): decode_tpmkey_url on a uuid= locator succeeds, with
\* uuid_set true, exactly when at least 32 alphanumeric characters follow
\* uuid= and the first 32 of them are hexadecimal digits; the characters after
\* those 32 are ignored.  Otherwise it fails with GNUTLS_E_PARSING_ERROR and
\* uuid_set stays false.
C13_UuidNeedsThirtyTwoHexDigits ==
  IsUuidLocator =>
    LET al == AlnumAfterUuidKey
        good == /\ Len(al) >= 2 * UUID_SIZE
                /\ \A i \in 1..(2 * UUID_SIZE) : IsHexDigit(al[i])
    IN IF good
       THEN uRet = E_SUCCESS /\ uOut.uuid_set
       ELSE uRet = "GNUTLS_E_PARSING_ERROR" /\ ~uOut.uuid_set

\* A uuid= locator with more than 32 hexadecimal digits was decoded
\* successfully.
C13_Witness ==
  /\ IsUuidLocator
  /\ Len(AlnumAfterUuidKey) > 2 * UUID_SIZE
  /\ uRet = E_SUCCESS
  /\ uOut.uuid_set

\* C13 as stated: decode succeeds only if the alphanumeric characters after
\* uuid= are exactly 32 hexadecimal digits.
C13_Original ==
  (IsUuidLocator /\ uRet = E_SUCCESS) =>
    LET al == AlnumAfterUuidKey
    IN /\ Len(al) = 2 * UUID_SIZE
       /\ \A i \in 1..Len(al) : IsHexDigit(al[i])

\* The text between the first file= of the string and the next semicolon or
\* the end of the string.
TextAfterFileKey ==
  LET first == CHOOSE i \in 1..Len(uStr) :
                 /\ SubSeq(uStr, i, i + Len(FileKey) - 1) = FileKey
                 /\ \A k \in 1..(i - 1) : SubSeq(uStr, k, k + Len(FileKey) - 1) # FileKey
      rest == SubSeq(uStr, first + Len(FileKey), Len(uStr))
      semis == {i \in 1..Len(rest) : rest[i] = ";"}
      stop == IF semis = {} THEN Len(rest) + 1
              ELSE CHOOSE i \in semis : \A k \in semis : i <= k
  IN SubSeq(rest, 1, stop - 1)

\* C14: for a file= locator a successful decode_tpmkey_url stores as filename
\* a terminated string that is exactly the backslash-unescaped text between
\* file= and the next semicolon or the end of the input, within the buffer
\* allocated for it.
C14_FilenameTerminatedInBuffer ==
  (/\ uPc = "decoded"
   /\ Occurs(SchemePrefix, uStr)
   /\ Occurs(FileKey, uStr)
   /\ uRet = E_SUCCESS) =>
    /\ uOut.filename = Append(buffer_unescape(TextAfterFileKey), NUL)
    /\ Len(uOut.filename) <= uOut.filename_cap

\* C15: decode_tpmkey_url fails with GNUTLS_E_PARSING_ERROR, producing
\* neither a filename nor a UUID, for every input without the tpmkey: scheme
\* prefix (the struct is left as the caller passed it) and for every input
\* with the prefix but with neither file= nor uuid= (the struct is zeroed).
C15_RejectsUnknownLocators ==
  (/\ uPc = "decoded"
   /\ \/ ~Occurs(SchemePrefix, uStr)
      \/ ~Occurs(FileKey, uStr) /\ ~Occurs(UuidKey, uStr)) =>
    /\ uRet = "GNUTLS_E_PARSING_ERROR"
    /\ IF Occurs(SchemePrefix, uStr)
       THEN ~uOut.filename_set /\ ~uOut.uuid_set
       ELSE uOut = UninitUrl

\* A string that names a key but not the scheme was rejected.
C15_Witness ==
  /\ uPc = "decoded"
  /\ ~Occurs(SchemePrefix, uStr)
  /\ Occurs(FileKey, uStr)
  /\ uRet = "GNUTLS_E_PARSING_ERROR"
  /\ ~uOut.written

\* The key sizes a chip supports.
SupportedSizes == {512, 1024, 2048, 4096, 8192, 16384}

\* C16: for every requested bit size b gnutls_tpm_privkey_generate selects
\* exactly one chip key size: the smallest supported size that is >= b, and
\* 16384 when b is above 16384.
C16_BitsQuantizedUpward ==
  kPc = "flagged" =>
    /\ Cardinality(tpm_flags.size) = 1
    /\ \A sz \in tpm_flags.size :
         /\ sz \in SupportedSizes
         /\ IF bits > 16384 THEN sz = 16384
            ELSE /\ sz >= bits
                 /\ \A other \in SupportedSizes : other >= bits => sz <= other

\* A size on a boundary was requested and the boundary itself selected.
C16_Witness ==
  /\ kPc = "flagged"
  /\ bits = 2048
  /\ tpm_flags.size = {2048}

\* A key import called with neither a blob nor a UUID has returned.
ImportWithoutSourceReturned ==
  /\ op \in {"import_tpm_key", "import_tpm_pubkey"}
  /\ pc = "idle"
  /\ args.fdata = "none"
  /\ args.uuid = "none"

\* C17 (as amended): a key import called with neither a blob nor a UUID fails
\* and leaves no chip handle of its own open; the error is
\* GNUTLS_E_INVALID_REQUEST once the state was allocated and the session
\* opened, GNUTLS_E_MEMORY_ERROR when the allocation failed, and the mapped
\* native error when tpm_open_session failed.
C17_NoSourceFails ==
  ImportWithoutSourceReturned =>
    /\ ret # E_SUCCESS
    /\ \A h \in chip.live : h[1] # nOps
    /\ \A i \in 1..Len(openLog) :
         Cardinality({k \in 1..Len(closeLog) : closeLog[k].h = openLog[i]}) = 1
    /\ IF fail.step = "gnutls_malloc(s)"
       THEN ret = "GNUTLS_E_MEMORY_ERROR" /\ openLog = <<>>
       ELSE IF fail.code # "none"
       THEN /\ fail.step \in {"Tspi_Context_Create", "Tspi_Context_Connect",
                              "Tspi_Context_LoadKeyByUUID(SRK)",
                              "Tspi_GetPolicyObject(SRK)", "Tspi_Policy_SetSecret(SRK)"}
            /\ ret \in {"GNUTLS_E_TPM_SESSION_ERROR", "GNUTLS_E_TPM_SRK_PASSWORD_ERROR",
                        "GNUTLS_E_TPM_ERROR"}
       ELSE ret = "GNUTLS_E_INVALID_REQUEST" /\ Len(openLog) = 3

\* A public-key import without blob and UUID opened its session, was refused
\* with GNUTLS_E_INVALID_REQUEST and closed the three handles of the session.
C17_Witness ==
  /\ ImportWithoutSourceReturned
  /\ op = "import_tpm_pubkey"
  /\ ret = "GNUTLS_E_INVALID_REQUEST"
  /\ Len(openLog) = 3
  /\ Len(closeLog) = 3

\* C17 as stated: the import fails with GNUTLS_E_INVALID_REQUEST and no chip
\* handle remains open.
C17_Original ==
  ImportWithoutSourceReturned =>
    /\ ret = "GNUTLS_E_INVALID_REQUEST"
    /\ \A h \in chip.live : h[1] # nOps

\* C18: in tpm_sign_fn every chip failure other than an authorisation
\* failure of the sign operation (the hash object cannot be created, the
\* digest cannot be injected, the sign operation fails with another native
\* code) returns GNUTLS_E_PK_SIGN_FAILED, and the call returns 0 only when
\* the chip's sign operation succeeded.
C18_OtherSignFailures ==
  (op = "sign" /\ pc = "idle") =>
    /\ fail.step \in {"Tspi_Context_CreateObject(HASH)", "Tspi_Hash_SetHashValue"}
         => ret = "GNUTLS_E_PK_SIGN_FAILED"
    /\ (fail.step = "Tspi_Hash_Sign" /\ fail.code # "TPM_E_AUTHFAIL")
         => ret = "GNUTLS_E_PK_SIGN_FAILED"
    /\ ret = E_SUCCESS <=> fail = NoFail
    /\ ret = E_SUCCESS => Len(openLog) = 1 /\ Len(closeLog) = 1

\* The hash object could not be created because the daemon was unreachable,
\* and the sign call returned GNUTLS_E_PK_SIGN_FAILED.
C18_Witness ==
  /\ op = "sign"
  /\ pc = "idle"
  /\ fail = [step |-> "Tspi_Context_CreateObject(HASH)", code |-> "TSS_E_COMM_FAILURE"]
  /\ ret = "GNUTLS_E_PK_SIGN_FAILED"

\* The value the Error Mapper returns for a native code.
MappedError(code) ==
  IF code \in {"TSS_E_COMM_FAILURE", "TSS_E_NO_CONNECTION",
               "TSS_E_CONNECTION_FAILED", "TSS_E_CONNECTION_BROKEN"}
  THEN "GNUTLS_E_TPM_SESSION_ERROR"
  ELSE IF code = "TPM_E_AUTHFAIL"
  THEN "GNUTLS_E_TPM_SRK_PASSWORD_ERROR"
  ELSE "GNUTLS_E_TPM_ERROR"

\* The steps of tpm_sign_fn.
SignSteps ==
  {"Tspi_Context_CreateObject(HASH)", "Tspi_Hash_SetHashValue", "Tspi_Hash_Sign"}

\* C19 as stated: for every native-call failure in every operation, the error
\* returned to the caller is the Error Mapper's value for the failing native
\* code.
C19_Original ==
  (pc = "idle" /\ fail.code # "none") => ret = MappedError(fail.code)

\* C19 (as amended): the error returned for a native-call failure is the
\* Error Mapper's value for the failing native code in tpm_open_session, the
\* key loading and policy creation steps of the imports, read_pubkey and
\* gnutls_tpm_privkey_generate.  tpm_sign_fn translates by itself:
\* GNUTLS_E_INSUFFICIENT_CREDENTIALS for an authorisation failure of the sign
\* operation and GNUTLS_E_PK_SIGN_FAILED for everything else; and
\* import_tpm_key returns GNUTLS_E_TPM_KEY_PASSWORD_ERROR for every failure
\* of setting the key secret.
C19_TranslationPoints ==
  (pc = "idle" /\ fail.code # "none") =>
    ret = IF fail.step \in SignSteps
          THEN IF fail.step = "Tspi_Hash_Sign" /\ fail.code = "TPM_E_AUTHFAIL"
               THEN "GNUTLS_E_INSUFFICIENT_CREDENTIALS"
               ELSE "GNUTLS_E_PK_SIGN_FAILED"
          ELSE IF fail.step = "Tspi_Policy_SetSecret(key)" /\ op = "import_tpm_key"
          THEN "GNUTLS_E_TPM_KEY_PASSWORD_ERROR"
          ELSE MappedError(fail.code)

\* A sign call failed because the daemon was unreachable during the sign
\* operation, and returned GNUTLS_E_PK_SIGN_FAILED.
C19_Witness ==
  /\ op = "sign"
  /\ pc = "idle"
  /\ fail = [step |-> "Tspi_Hash_Sign", code |-> "TSS_E_COMM_FAILURE"]
  /\ ret = "GNUTLS_E_PK_SIGN_FAILED"

\* C20: in every private-key import the key policy field of the Signing
\* Delegate state is absent (zero) from the moment the state is allocated
\* until a key policy object is created for it, and nothing reads it as
\* anything else.
C20_PolicyAbsentUntilCreated ==
  (heap = "alloc" /\ ~st["heap"].polInit) =>
    /\ st["heap"].tpm_key_policy = Null
    /\ "read_of_uninitialised_tpm_key_policy" \notin ub

\* How many handles of kind k the running entry point has obtained.
Opened(k) == Cardinality({i \in 1..Len(openLog) : openLog[i][2] = k})

\* C21: a private-key import performs one trial sign and never loops; when
\* the trial returned GNUTLS_E_INSUFFICIENT_CREDENTIALS and the import
\* succeeded, exactly one key policy object was created, it is bound to the
\* key handle, its secret is the caller's key password, and no second sign
\* was made; no sign call creates a policy.
C21_OneTrialOnePolicy ==
  /\ op = "import_tpm_key" => Opened("hash") <= 1 /\ Opened("keypol") <= 1
  /\ op = "sign" => Opened("keypol") = 0
  /\ (/\ op = "import_tpm_key"
      /\ pc = "idle"
      /\ ret = E_SUCCESS
      /\ sret = "GNUTLS_E_INSUFFICIENT_CREDENTIALS") =>
       LET s == st["heap"]
       IN /\ Opened("hash") = 1
          /\ Opened("keypol") = 1
          /\ s.tpm_key_policy \in chip.live
          /\ s.tpm_key \in DOMAIN chip.keypol
          /\ chip.keypol[s.tpm_key] = s.tpm_key_policy
          /\ s.tpm_key_policy \in DOMAIN chip.secret
          /\ chip.secret[s.tpm_key_policy] =
               [mode |-> "TSS_SECRET_MODE_PLAIN", data |-> args.key_password]

GenerateReturnedAfterOpen ==
  /\ op = "generate"
  /\ pc = "idle"
  /\ Len(openLog) >= 3
  /\ fail.step # "Tspi_Policy_SetSecret(SRK)"

\* C23: on every return of gnutls_tpm_privkey_generate that follows a
\* successful session open, the generation key object (if it was created) is
\* closed and then SRK policy, SRK and context are closed, each exactly once
\* and while still open; after a successful persisting generate the key
\* stays registered in the daemon's store although its handle is closed.
C23_GenerateTeardown ==
  GenerateReturnedAfterOpen =>
    LET created == Opened("key") = 1
        expect == (IF created THEN <<"key">> ELSE <<>>) \o <<"srkpol", "srk", "ctx">>
    IN /\ Opened("key") <= 1
       /\ Len(closeLog) = Len(expect)
       /\ \A i \in 1..Len(closeLog) :
            /\ closeLog[i].h[2] = expect[i]
            /\ closeLog[i].h[1] = nOps
            /\ closeLog[i].live
       /\ \A h \in chip.live : h[1] # nOps
       /\ (ret = E_SUCCESS /\ args.register) =>
            /\ created
            /\ loc.key_uuid \in chip.store

\* A persisting generate succeeded: four close calls, nothing left open, the
\* key in the store.
C23_Witness ==
  /\ GenerateReturnedAfterOpen
  /\ ret = E_SUCCESS
  /\ args.register
  /\ Len(closeLog) = 4
  /\ loc.key_uuid \in chip.store

\* A close call that closed a handle that was open.
IsLiveClose(e) == e.live

\* The handles of the Signing Delegate state that belong to its session and
\* key.
DelegateHandles ==
  {st["heap"].tpm_ctx, st["heap"].srk, st["heap"].srk_policy, st["heap"].tpm_key}

\* While the imported key is in use its state is allocated, its four handles
\* are open, and neither the import nor a sign call has closed one of them.
C24_HandlesKeptOpen ==
  (pkey.state = "registered" /\ pkey.usable) =>
    /\ heap = "alloc"
    /\ DelegateHandles \subseteq chip.live
    /\ {h[2] : h \in DelegateHandles} = {"ctx", "srk", "srkpol", "key"}
    /\ \A i \in 1..Len(closeLog) : closeLog[i].h \notin DelegateHandles

\* The deinit of a successfully imported key issues five close calls, closes
\* the key policy (if one was created), the key handle, SRK policy, SRK and
\* context in that order, and frees the state.
C24_DeinitStep ==
  (pkey.state = "registered" /\ pkey.usable /\ pkey'.state = "destroyed") =>
    LET s == st["heap"]
        closed == SelectSeq(closeLog', IsLiveClose)
        expect == (IF s.tpm_key_policy \in chip.live THEN <<s.tpm_key_policy>> ELSE <<>>)
                  \o <<s.tpm_key, s.srk_policy, s.srk, s.tpm_ctx>>
    IN /\ Len(closeLog') = 5
       /\ closeLog'[1].h = s.tpm_key_policy
       /\ [i \in 1..Len(closed) |-> closed[i].h] = expect
       /\ heap' = "freed"
       /\ \A h \in chip'.live : h[1] # s.tpm_ctx[1]

\* C24: after a successful private-key import, none of the context, SRK,
\* SRK-policy and key handles of the Signing Delegate state is closed by the
\* import or by a sign call; they stay open until the abstract key's deinit
\* runs, which closes key policy, key handle, SRK policy, SRK and context in
\* that order and then frees the state.
C24_OpenUntilDeinit == []C24_HandlesKeptOpen /\ [][C24_DeinitStep]_vars

\* The deinit of a key whose policy had been created closed five open
\* handles and freed the state.
C24_Witness ==
  /\ op = "deinit"
  /\ heap = "freed"
  /\ Len(closeLog) = 5
  /\ \A i \in 1..5 : closeLog[i].live
  /\ closeLog[1].h[2] = "keypol"
  /\ ub = {}

\* The positions at which the next step is a key operation on the chip: a
\* load by blob or UUID, key creation, registration, or the sign operation.
KeyOperationNext ==
  \/ pc \in {"ik_loadblob", "ip_loadblob", "g_createkey", "g_register", "sg_sign"}
  \/ pc \in {"ik_body", "ip_body"} /\ args.uuid # "none"

\* C25: every key operation on the chip happens only after tpm_open_session
\* has set the secret of the SRK policy of the session in use: the caller's
\* password in plaintext mode when one was given, the 20-byte zero secret in
\* SHA1 mode otherwise.  A sign call on an imported key runs in the session
\* of the import, whose password the sign call is not given.
C25_SrkSecretSetBeforeKeyOps ==
  KeyOperationNext =>
    /\ S.srk_policy \in chip.live
    /\ S.srk_policy[2] = "srkpol"
    /\ S.srk_policy \in DOMAIN chip.secret
    /\ \E sp \in (IF op = "sign" THEN SrkPasswords ELSE {args.srk_password}) :
         chip.secret[S.srk_policy] =
           IF sp = NULLP
           THEN [mode |-> "TSS_SECRET_MODE_SHA1", data |-> "zero20"]
           ELSE [mode |-> "TSS_SECRET_MODE_PLAIN", data |-> sp]

\* A generate without SRK password is about to create the key; the SRK policy
\* holds the zero secret.
C25_Witness ==
  /\ pc = "g_createkey"
  /\ args.srk_password = NULLP
  /\ chip.secret[S.srk_policy] = [mode |-> "TSS_SECRET_MODE_SHA1", data |-> "zero20"]

\* C26: whatever the interleaving of concurrent operations, every handle an
\* operation closes or uses is one that operation created itself.
C26_OwnHandlesOnly == \A e \in touch : e.h[1] = e.by

DecodeSteps == {"gnutls_pem_base64_decode_alloc", "_gnutls_x509_decode_octet_string"}

\* C27: a blob import that is handed, with format F, the blob a generation in
\* format F returns never fails in its decoding steps: it recovers the chip's
\* blob, for PEM and for the raw octet string encoding alike.
C27_BlobRoundTrip ==
  (op = "import_tpm_key" /\ pc = "idle" /\ args.fdata = GeneratedBlob(args.format))
    => fail.step \notin DecodeSteps

\* C28: the locator returned for a registered key names the key that was
\* registered: whenever decode_tpmkey_url recovers a UUID from the string
\* encode_tpmkey_url made of the registered key_uuid, every field of the
\* recovered UUID equals the field of key_uuid.
C28_LocatorNamesRegisteredKey ==
  (uPc = "roundtrip" /\ uOut.uuid_set) =>
     \A f \in DOMAIN uIn : uOut.uuid[f] = uIn[f]

\* C29: on every path through gnutls_tpm_privkey_generate each gnutls_free is
\* passed NULL or a buffer the call allocated and still owns: it never frees
\* an indeterminate pointer and never frees a buffer twice.
C29_GenerateFreesOwnBuffers ==
  op = "generate" => ub \cap {"free_of_uninitialised_pointer", "double_free"} = {}

\* C30: in the import by blob and in the import by UUID alike, the trial sign
\* is called with a data argument that is not NULL, so signing the trial data
\* never reads through a null pointer.
C30_TrialSignDataDefined ==
  (op = "import_tpm_key" /\ pc \in {"sg_create", "crashed"}) =>
     /\ args.fdata # "none"
     /\ "null_data_dereference" \notin ub

=============================================================================
